---- MODULE Spec2Model ----
(***************************************************************************)
(* Model of the ingestion core of the Alpha Vantage project:               *)
(*   - AtomicS3 (src/utils/atomic_s3.py) over S3Storage                    *)
(*     (src/utils/storage.py): temp-write, copy-publish, cleanup.          *)
(*   - AlphaVantageClient (src/utils/api_client.py): retry loop, response  *)
(*     validation and mock data generation.                                *)
(*   - StockDataProcessor (src/utils/data_processing.py): transformation   *)
(*     of the raw series, quality checks, extraction of the latest row.    *)
(*   - the key scheme (src/utils/s3_paths.py): building, decoding and      *)
(*     converting object keys, and the encoders of Config (src/config.py). *)
(*   - the migration (src/scripts/migrate_s3_data.py): migrate_objects     *)
(*     over a listing, with copy, delete and dry run.                      *)
(*   - the daily job (src/fetch_daily.py, lambda/fetch_daily_lambda.py):   *)
(*     process_symbol with its metadata and its log, the loop of main,     *)
(*     exit code and handler response.                                     *)
(*   - the S3Storage test (src/test_s3_operations.py): save, load, list    *)
(*     and exists in mock mode and against a store.                        *)
(*   - the standalone Lambda function (lambda/function/lambda_function.py):*)
(*     lambda_handler, its loop over the symbols and its response.         *)
(***************************************************************************)
EXTENDS Integers, Sequences, FiniteSets, TLC

\* ------------------------------------------------------------------------
\* Bounds of the model
\* ------------------------------------------------------------------------
\* total number of atomic_update calls explored
MaxCalls == 2

\* the concurrent callers of atomic_update
Callers == {1, 2}

\* ------------------------------------------------------------------------
\* JSON payloads: a dict is a sequence of <<field, value>> pairs (insertion
\* order), its serialization a sequence of tokens.
\* ------------------------------------------------------------------------
Tok(t, s) == [t |-> t, s |-> s]

V0 == << <<"test_id", "s3-test-000">> >>
V1 == << <<"test_id", "s3-test-001">>, <<"key1", "value1">> >>
V2 == << <<"test_id", "s3-test-002">>, <<"key1", "value1">> >>
DataSet == {V1, V2}

RECURSIVE DumpsItems(_)
DumpsItems(d) ==
    IF d = <<>> THEN <<>>
    ELSE LET item == <<Tok("str", d[1][1]), Tok("colon", ""), Tok("str", d[1][2])>>
         IN IF Len(d) = 1 THEN item
            ELSE item \o <<Tok("comma", "")>> \o DumpsItems(Tail(d))

\* json.dumps(data, indent=2)
JsonDumps(d) == <<Tok("lbrace", "")>> \o DumpsItems(d) \o <<Tok("rbrace", "")>>

ParseError == << <<"ParseError", "ParseError">> >>

RECURSIVE LoadsItems(_)
LoadsItems(ts) ==
    IF Len(ts) < 3 \/ ts[1].t # "str" \/ ts[2].t # "colon" \/ ts[3].t # "str"
    THEN ParseError
    ELSE LET item == << <<ts[1].s, ts[3].s>> >>
         IN IF Len(ts) = 3 THEN item
            ELSE IF ts[4].t # "comma" THEN ParseError
            ELSE LET rest == LoadsItems(SubSeq(ts, 5, Len(ts)))
                 IN IF rest = ParseError THEN ParseError ELSE item \o rest

\* json.loads(body)
JsonLoads(ts) ==
    IF Len(ts) < 2 \/ ts[1].t # "lbrace" \/ ts[Len(ts)].t # "rbrace"
    THEN ParseError
    ELSE IF Len(ts) = 2 THEN <<>>
    ELSE LoadsItems(SubSeq(ts, 2, Len(ts) - 1))

\* ------------------------------------------------------------------------
\* Object keys of the store
\* ------------------------------------------------------------------------
\* the target key of the updates
K == [base |-> "prod/stock/raw/NVDA/latest.json", tmp |-> 0]

\* mutant: the temporary key does not depend on the uuid
TmpKey_NoUuid(key, uuid) == [base |-> key.base, tmp |-> 1]

\* tmp_key = f"{key}.tmp.{uuid.uuid4()}"
TmpKey(key, uuid) == [base |-> key.base, tmp |-> uuid]

AllKeys == {K} \cup {TmpKey(K, u) : u \in 1..MaxCalls}

\* body of a key that holds no object
NotFound == <<>>

\* ------------------------------------------------------------------------
\* State
\* ------------------------------------------------------------------------
VARIABLES
    store,          \* the bucket: key -> body (NotFound when absent)
    mock_mode,      \* AtomicS3.mock_mode
    s3_mock_mode,   \* S3Storage.mock_mode (no s3_client in that mode)
    call,           \* per caller: the atomic_update call in progress
    next_uuid,      \* the next value of uuid.uuid4()
    history,        \* the returned calls, in order of return
    oplog,          \* the store operations issued so far
    last_copy       \* id of the call whose copy to K succeeded last (0: none)

atomicVars == <<store, mock_mode, s3_mock_mode, call, next_uuid, history, oplog, last_copy>>

VARIABLES
    fc_pc,          \* _make_api_request: "loop" or "done"
    fc_max_retries, \* its max_retries argument
    retry_count,    \* its retry_count
    fc_log,         \* the responses received, one per request issued
    fc_sleeps,      \* the delays slept, in units of 2^-FractionBits s
    fc_result       \* what it returned: "pending", "data", "None"

fetchVars == <<fc_pc, fc_max_retries, retry_count, fc_log, fc_sleeps, fc_result>>

VARIABLES
    mk_pc,          \* _get_mock_data: "gen" or "done"
    mk_outputsize,  \* its outputsize argument
    mk_i,           \* the loop index i
    mk_base,        \* base_price, in 1/PriceScale
    mk_last_date,   \* the date generated last
    mk_count,       \* number of keys of time_series
    mk_distinct,    \* every date generated so far was a new key
    mk_zero_volume, \* some row has volume 0
    mk_negative,    \* some row has a negative price
    mk_inconsistent \* some row has low > high, or open or close outside

mockVars == <<mk_pc, mk_outputsize, mk_i, mk_base, mk_last_date, mk_count,
              mk_distinct, mk_zero_volume, mk_negative, mk_inconsistent>>

VARIABLES
    qg_pc,          \* the quality gate: "raw", "validated", "extracted", "built"
    qg_stock_data,  \* the stock_data handed to validate_and_transform
    qg_result,      \* what validate_and_transform returned
    qg_latest,      \* what extract_latest_data returned
    qg_documents    \* the metadata and the daily key process_symbol built

gateVars == <<qg_pc, qg_stock_data, qg_result, qg_latest, qg_documents>>

VARIABLES
    ks_pc,          \* the key scheme: "start", "built", "parsed", "converted"
    ks_mock_env,    \* the MOCK_MODE environment variable
    ks_origin,      \* the call that built the key, or the listing it is from
    ks_key,         \* the key under consideration
    ks_info,        \* what parse_s3_key(ks_key) returned
    ks_conv         \* the convert_key_format call made and what it returned

keyVars == <<ks_pc, ks_mock_env, ks_origin, ks_key, ks_info, ks_conv>>

VARIABLES
    mg_pc,          \* migrate_objects: "visit", "copy", "delete", "returned", "raised"
    mg_objects,     \* the keys list_s3_objects returned
    mg_args,        \* target_version, data_type, is_mock, delete_source, dry_run
    mg_i,           \* the position in objects of the key being processed
    mg_target_key,  \* target_key of migrate_object, once converted
    mg_bucket,      \* the bucket: the content found under each key
    mg_calls,       \* the calls of copy_s3_object and delete_s3_object made
    mg_processed,   \* the keys processed so far and how each was counted
    mg_success_count,
    mg_failed_count,
    mg_skipped_count,
    mg_migrated_keys,
    mg_result       \* what migrate_objects returned or raised

migVars == <<mg_pc, mg_objects, mg_args, mg_i, mg_target_key, mg_bucket, mg_calls,
             mg_processed, mg_success_count, mg_failed_count, mg_skipped_count,
             mg_migrated_keys, mg_result>>

VARIABLES
    jb_pc,          \* main: "start", "loop", "save", "returned", "raised", "responded"
    jb_symbols,     \* config.stock_symbols
    jb_storage,     \* "s3" (config.save_to_s3), "local" (local_storage) or "none"
    jb_i,           \* the position in stock_symbols of the symbol being processed
    jb_saves,       \* the atomic_json_update calls made for this symbol
    jb_outcomes,    \* per symbol processed: "ok", "fail" (False returned), "raise"
    jb_results,     \* results of main
    jb_success_count,
    jb_failure_count,
    jb_exit_code,   \* what main returned, -1 before
    jb_status_code, \* statusCode of the handler's response, 0 before
    jb_log          \* what process_symbol did, per position: fetch, validation, writes

jobVars == <<jb_pc, jb_symbols, jb_storage, jb_i, jb_saves, jb_outcomes, jb_results,
             jb_success_count, jb_failure_count, jb_exit_code, jb_status_code,
             jb_log>>

VARIABLES
    ss_pc,          \* the test of S3Storage: "save", "load", "list", "exists", "done"
    ss_data,        \* test_data
    ss_save_result, \* what save_json returned
    ss_loaded,      \* what load_json returned
    ss_listed,      \* what list_objects returned
    ss_exists       \* what object_exists returned

storageVars == <<ss_pc, ss_data, ss_save_result, ss_loaded, ss_listed, ss_exists>>

VARIABLES
    lh_pc,          \* lambda_handler: "start", "loop", "responded"
    lh_mock_mode,   \* MOCK_MODE as the handler reads it
    lh_symbols,     \* stock_symbols.split(',')
    lh_i,           \* the position of the symbol the loop is at
    lh_results,     \* results, "none" for a symbol without entry
    lh_ends,        \* per iteration made: "success" or the error_type recorded
    lh_response     \* the dict returned

lambdaVars == <<lh_pc, lh_mock_mode, lh_symbols, lh_i, lh_results, lh_ends, lh_response>>

vars == <<atomicVars, fetchVars, mockVars, gateVars, keyVars, migVars, jobVars,
          storageVars, lambdaVars>>

IdleCall == [pc |-> "idle", id |-> 0, how |-> "none", data |-> <<>>,
             faults |-> {}, ncopy |-> 0, overlapped |-> FALSE, pre_K |-> NotFound]

\* ------------------------------------------------------------------------
\* Python call binding of update_func(tmp_key, *args, **kwargs)
\* ------------------------------------------------------------------------
\* the ways atomic_update is entered: through atomic_json_update (which
\* passes S3Storage.save_json and data as a keyword), or directly with a
\* callable of one parameter that saves the payload at the key it is given
Hows == {"atomic_json_update", "atomic_update"}

\* the parameter list of the callable handed to atomic_update
FuncParams(how) ==
    IF how = "atomic_json_update" THEN <<"data", "key">> ELSE <<"key">>

\* the keyword arguments handed to atomic_update
KwArgs(how) == IF how = "atomic_json_update" THEN {"data"} ELSE {}

\* update_func(tmp_key, **kwargs): the positional argument binds the first
\* parameter; a keyword naming it again, or a parameter left unbound, is a
\* TypeError; otherwise the name of the parameter that received tmp_key
BindUpdateFunc(params, kwnames) ==
    IF params[1] \in kwnames THEN "TypeError"
    ELSE IF \E i \in 2..Len(params) : params[i] \notin kwnames THEN "TypeError"
    ELSE params[1]

\* mutant: update_func is handed the target key
UpdateFuncKey_Target(key, tmp_key) == key

\* the key atomic_update hands to update_func
UpdateFuncKey(key, tmp_key) == tmp_key

\* mutant: the result of update_func is ignored
PcAfterUpdate_Ignored(success) == "copy"

\* control after update_func returned `success`
PcAfterUpdate(success) == IF success THEN "copy" ELSE "return_false"

\* control after s3_client.delete_object of the temporary key, inside the try
PcAfterDelete(ok) == IF ok THEN "return_true" ELSE "cleanup"

\* mutant: the except block never deletes the temporary object
PcAfterExists_NoDelete(exists) == "return_false"

\* control after the except block's object_exists(tmp_key)
PcAfterExists(exists) == IF exists THEN "cleanup_delete" ELSE "return_false"

\* mutant: the cleanup is not wrapped in its own try/except
CleanupResult_Unguarded(outcome) ==
    IF outcome \in {"exists_error", "delete_error"} THEN "raised" ELSE "False"

\* what the except block returns, whatever the cleanup did
\* outcome: "no_object", "deleted", "exists_error", "delete_error"
CleanupResult(outcome) == "False"

\* S3Storage.object_exists: head_object; a ClientError is answered False
ObjectExists(present, outcome) ==
    IF outcome = "ok" THEN (IF present THEN "True" ELSE "False")
    ELSE IF outcome = "client_error" THEN "False"
    ELSE "raised"

\* ------------------------------------------------------------------------
\* AtomicS3.atomic_update, one action per store operation
\* ------------------------------------------------------------------------
Op(id, op, key, ok, body) == [id |-> id, op |-> op, key |-> key, ok |-> ok, body |-> body]

\* the record of a returned call
Entry(c, result, st) ==
    [id |-> c.id, how |-> c.how, data |-> c.data, result |-> result,
     faults |-> c.faults, ncopy |-> c.ncopy, overlapped |-> c.overlapped,
     pre_K |-> c.pre_K, post_K |-> st[K],
     post_tmp |-> IF c.id = 0 THEN NotFound ELSE st[TmpKey(K, c.id)]]

Active(q) == call[q].pc # "idle"

\* move caller p to pcnext, or return from the call
Continue(p, c, pcnext, result, st) ==
    IF pcnext \in {"return_true", "return_false", "return"}
    THEN /\ call' = [call EXCEPT ![p] = IdleCall]
         /\ history' = Append(history, Entry(c, result, st))
    ELSE /\ call' = [call EXCEPT ![p] = [c EXCEPT !.pc = pcnext]]
         /\ history' = history

ResultOf(pcnext) == IF pcnext = "return_true" THEN "True" ELSE "False"

\* atomic_update entered: mock mode returns True at once; otherwise the
\* temporary key is generated (lines 47-52)
Begin(p) ==
    /\ ~Active(p)
    /\ Len(history) + Cardinality({q \in Callers : Active(q)}) < MaxCalls
    /\ \E how \in Hows, data \in DataSet :
        LET others == \E q \in Callers : Active(q)
            c == [IdleCall EXCEPT !.how = how, !.data = data,
                                  !.overlapped = others, !.pre_K = store[K]]
        IN IF mock_mode
           THEN /\ history' = Append(history, Entry(c, "True", store))
                /\ UNCHANGED <<call, next_uuid>>
           ELSE /\ call' = [q \in Callers |->
                              IF q = p THEN [c EXCEPT !.pc = "update", !.id = next_uuid]
                              ELSE IF Active(q) THEN [call[q] EXCEPT !.overlapped = TRUE]
                              ELSE call[q]]
                /\ next_uuid' = next_uuid + 1
                /\ history' = history
    /\ UNCHANGED <<store, mock_mode, s3_mock_mode, oplog, last_copy>>
    /\ UNCHANGED <<fetchVars, mockVars, gateVars, keyVars, migVars, jobVars, storageVars, lambdaVars>>

\* success = update_func(tmp_key, *args, **kwargs), the callable being
\* S3Storage.save_json (lines 58-63; storage.py 52-79)
Update(p) ==
    /\ call[p].pc = "update"
    /\ LET c == call[p]
           tmp == TmpKey(K, c.id)
           key == UpdateFuncKey(K, tmp)
           bound == BindUpdateFunc(FuncParams(c.how), KwArgs(c.how))
       IN IF bound # "key"
          THEN \* the call raises: control goes to the except block
               /\ Continue(p, [c EXCEPT !.faults = @ \cup {"TypeError"}], "cleanup", "False", store)
               /\ UNCHANGED <<store, oplog>>
          ELSE IF s3_mock_mode
          THEN \* save_json in mock mode: no put, True
               /\ Continue(p, c, PcAfterUpdate(TRUE), ResultOf(PcAfterUpdate(TRUE)), store)
               /\ UNCHANGED <<store, oplog>>
          ELSE \E ok \in BOOLEAN :
               LET body == JsonDumps(c.data)
                   st == IF ok THEN [store EXCEPT ![key] = body] ELSE store
                   c2 == IF ok THEN c ELSE [c EXCEPT !.faults = @ \cup {"put"}]
               IN /\ store' = st
                  /\ oplog' = oplog \cup {Op(c.id, "put", key, ok, IF ok THEN body ELSE NotFound)}
                  /\ Continue(p, c2, PcAfterUpdate(ok), ResultOf(PcAfterUpdate(ok)), st)
    /\ UNCHANGED <<mock_mode, s3_mock_mode, next_uuid, last_copy>>
    /\ UNCHANGED <<fetchVars, mockVars, gateVars, keyVars, migVars, jobVars, storageVars, lambdaVars>>

\* s3_client.copy_object(tmp_key -> key) (lines 65-73)
Copy(p) ==
    /\ call[p].pc = "copy"
    /\ LET c == call[p]
           tmp == TmpKey(K, c.id)
       IN IF s3_mock_mode
          THEN \* S3Storage has no s3_client: AttributeError
               /\ Continue(p, [c EXCEPT !.faults = @ \cup {"AttributeError"}], "cleanup", "False", store)
               /\ UNCHANGED <<store, oplog, last_copy>>
          ELSE \E ok \in {b \in BOOLEAN : b => store[tmp] # NotFound} :
               LET st == IF ok THEN [store EXCEPT ![K] = store[tmp]] ELSE store
                   c1 == [c EXCEPT !.ncopy = @ + 1]
                   c2 == IF ok THEN c1 ELSE [c1 EXCEPT !.faults = @ \cup {"copy"}]
               IN /\ store' = st
                  /\ oplog' = oplog \cup {Op(c.id, "copy", K, ok, IF ok THEN store[tmp] ELSE NotFound)}
                  /\ last_copy' = IF ok THEN c.id ELSE last_copy
                  /\ Continue(p, c2, IF ok THEN "delete" ELSE "cleanup", "False", st)
    /\ UNCHANGED <<mock_mode, s3_mock_mode, next_uuid>>
    /\ UNCHANGED <<fetchVars, mockVars, gateVars, keyVars, migVars, jobVars, storageVars, lambdaVars>>

\* s3_client.delete_object(tmp_key) after the copy (lines 75-83)
Delete(p) ==
    /\ call[p].pc = "delete"
    /\ \E ok \in BOOLEAN :
        LET c == call[p]
            tmp == TmpKey(K, c.id)
            st == IF ok THEN [store EXCEPT ![tmp] = NotFound] ELSE store
            c2 == IF ok THEN c ELSE [c EXCEPT !.faults = @ \cup {"delete"}]
        IN /\ store' = st
           /\ oplog' = oplog \cup {Op(c.id, "delete", tmp, ok, NotFound)}
           /\ Continue(p, c2, PcAfterDelete(ok), ResultOf(PcAfterDelete(ok)), st)
    /\ UNCHANGED <<mock_mode, s3_mock_mode, next_uuid, last_copy>>
    /\ UNCHANGED <<fetchVars, mockVars, gateVars, keyVars, migVars, jobVars, storageVars, lambdaVars>>

\* except block: s3.object_exists(tmp_key) (lines 85-94; storage.py 244-263)
CleanupExists(p) ==
    /\ call[p].pc = "cleanup"
    /\ LET c == call[p]
           tmp == TmpKey(K, c.id)
       IN IF s3_mock_mode
          THEN Continue(p, c, PcAfterExists(FALSE), CleanupResult("no_object"), store)
          ELSE \E outcome \in {"ok", "client_error", "other_error"} :
               LET answer == ObjectExists(store[tmp] # NotFound, outcome)
                   c2 == IF outcome = "ok" THEN c ELSE [c EXCEPT !.faults = @ \cup {"exists"}]
               IN IF answer = "raised"
                  THEN Continue(p, c2, "return", CleanupResult("exists_error"), store)
                  ELSE Continue(p, c2, PcAfterExists(answer = "True"),
                                CleanupResult("no_object"), store)
    /\ UNCHANGED <<store, mock_mode, s3_mock_mode, next_uuid, oplog, last_copy>>
    /\ UNCHANGED <<fetchVars, mockVars, gateVars, keyVars, migVars, jobVars, storageVars, lambdaVars>>

\* except block: s3_client.delete_object(tmp_key), then return False
\* (lines 95-103)
CleanupDelete(p) ==
    /\ call[p].pc = "cleanup_delete"
    /\ \E ok \in BOOLEAN :
        LET c == call[p]
            tmp == TmpKey(K, c.id)
            st == IF ok THEN [store EXCEPT ![tmp] = NotFound] ELSE store
            c2 == IF ok THEN c ELSE [c EXCEPT !.faults = @ \cup {"cleanup_delete"}]
        IN /\ store' = st
           /\ oplog' = oplog \cup {Op(c.id, "delete", tmp, ok, NotFound)}
           /\ Continue(p, c2, "return",
                       CleanupResult(IF ok THEN "deleted" ELSE "delete_error"), st)
    /\ UNCHANGED <<mock_mode, s3_mock_mode, next_uuid, last_copy>>
    /\ UNCHANGED <<fetchVars, mockVars, gateVars, keyVars, migVars, jobVars, storageVars, lambdaVars>>

\* ------------------------------------------------------------------------
\* S3Storage.load_json
\* ------------------------------------------------------------------------
NoneValue == << <<"None", "None">> >>

MockLoaded == << <<"mock_data", "True">> >>

\* S3Storage.load_json(key): the mock dict in mock mode, None when the
\* object is missing or unparseable, else json.loads of the body
LoadJson(st, key) ==
    IF s3_mock_mode THEN MockLoaded
    ELSE IF st[key] = NotFound THEN NoneValue
    ELSE IF JsonLoads(st[key]) = ParseError THEN NoneValue
    ELSE JsonLoads(st[key])

\* ------------------------------------------------------------------------
\* Claims about AtomicS3
\* ------------------------------------------------------------------------
Entries == {history[i] : i \in 1..Len(history)}

RealStore == ~mock_mode /\ ~s3_mock_mode

StoreFaults == {"put", "copy", "delete", "exists", "cleanup_delete"}

CompleteBodies == {JsonDumps(d) : d \in DataSet}

CopyLanded(id) == \E e \in oplog : e.id = id /\ e.op = "copy" /\ e.ok

\* C1: the object at K is written only by a successful copy from a
\* temporary key holding a complete payload; put is issued only against
\* temporary keys, never against K; so get(K) is always 'not found', the
\* earlier complete payload or a complete new payload.
C1_ReaderAtomicity ==
    /\ \A e \in oplog : e.op = "put" => (e.key # K /\ e.key = TmpKey(K, e.id))
    /\ \A e \in oplog : (e.ok /\ e.key = K) => (e.op = "copy" /\ e.body \in CompleteBodies)
    /\ \/ store[K] \in {NotFound, JsonDumps(V0)}
       \/ \E e \in oplog : e.op = "copy" /\ e.ok /\ e.body = store[K]
    /\ store[K] # NotFound => JsonLoads(store[K]) \in DataSet \cup {V0}

\* C1 witness: K was published by a copy although another store operation
\* had failed
C1_Witness ==
    /\ \E e \in oplog : e.op = "copy" /\ e.ok /\ store[K] = e.body
    /\ \E f \in oplog : ~f.ok

\* C2: atomic_json_update(K, V1) then atomic_json_update(K, V2), run one
\* after the other against a store whose operations all succeed, both
\* return success and load_json(K) is V2.
C2_SequentialReplace ==
    ( /\ RealStore
      /\ Len(history) = 2
      /\ \A q \in Callers : ~Active(q)
      /\ \A h \in Entries : /\ h.how = "atomic_json_update"
                            /\ ~h.overlapped
                            /\ h.faults \cap StoreFaults = {}
      /\ history[1].data = V1
      /\ history[2].data = V2 )
    => /\ history[1].result = "True"
       /\ history[2].result = "True"
       /\ LoadJson(store, K) = V2

\* C3: when the put to the temporary key fails, atomic_update returns
\* failure, issues no copy, leaves no object at the temporary key and
\* leaves get(K) as it was before the call.
C3_PutFailure ==
    \A h \in Entries :
        "put" \in h.faults =>
            /\ h.result = "False"
            /\ h.ncopy = 0
            /\ ~CopyLanded(h.id)
            /\ h.post_tmp = NotFound
            /\ ~h.overlapped => h.post_K = h.pre_K

\* C3 witness: a call that ran alone returned after its put failed
C3_Witness ==
    \E h \in Entries : "put" \in h.faults /\ ~h.overlapped /\ h.pre_K # NotFound

\* C4 as stated: when the put succeeds and the copy fails, the copy is
\* attempted once, the call returns failure, get(K) is unchanged and the
\* temporary object has been deleted when the call returns.
C4_CopyFailureOriginal ==
    \A h \in Entries :
        "copy" \in h.faults =>
            /\ h.ncopy = 1
            /\ h.result = "False"
            /\ ~h.overlapped => h.post_K = h.pre_K
            /\ h.post_tmp = NotFound

\* C4 amended: when the put succeeds and the copy fails, the copy is
\* attempted once, the call returns failure and get(K) is unchanged; the
\* temporary object has been deleted when the call returns if the
\* existence check and the delete of the cleanup succeed, and is left in
\* the store with the staged payload otherwise.
C4_CopyFailure ==
    \A h \in Entries :
        "copy" \in h.faults =>
            /\ h.ncopy = 1
            /\ h.result = "False"
            /\ ~h.overlapped => h.post_K = h.pre_K
            /\ IF h.faults \cap {"exists", "cleanup_delete"} = {}
               THEN h.post_tmp = NotFound
               ELSE h.post_tmp = JsonDumps(h.data)

\* C4 witness: a call that ran alone returned after its copy failed and
\* its cleanup deleted the temporary object
C4_Witness ==
    \E h \in Entries :
        /\ h.faults = {"copy"}
        /\ ~h.overlapped
        /\ \E e \in oplog : e.id = h.id /\ e.op = "delete" /\ e.ok

\* C5: when put and copy succeed and the delete of the temporary key
\* fails, atomic_update still returns success; it returns success exactly
\* when the copy to K succeeded.
C5_DeleteFailureIsSuccess ==
    \A h \in Entries :
        h.id # 0 =>
            /\ "delete" \in h.faults => h.result = "True"
            /\ h.result = "True" <=> CopyLanded(h.id)

\* C6: for every combination of failing put, copy, existence check and
\* delete, atomic_update returns a boolean and propagates no exception; a
\* failure inside the cleanup leaves the result at failure; a call in
\* progress can always take its next step.
C6_CleanupNeverEscalates ==
    /\ \A h \in Entries :
          /\ h.result \in {"True", "False"}
          /\ h.faults \cap {"exists", "cleanup_delete"} # {} => h.result = "False"
    /\ \A p \in Callers :
          Active(p) => ENABLED (Update(p) \/ Copy(p) \/ Delete(p)
                                \/ CleanupExists(p) \/ CleanupDelete(p))

\* C6 witness: a call returned after the delete of its cleanup failed
C6_Witness ==
    \E h \in Entries : "cleanup_delete" \in h.faults /\ "copy" \in h.faults

\* C7: two interleaved atomic_update calls on K whose store operations all
\* succeed both return success, get(K) is the payload of the call whose
\* copy executed last, no temporary object remains, and no temporary key
\* is put or deleted by two different calls.
C7_LastWriterWins ==
    /\ \A e, f \in oplog :
          (e.key = f.key /\ e.key # K) => e.id = f.id
    /\ ( /\ RealStore
         /\ Len(history) = 2
         /\ \A q \in Callers : ~Active(q)
         /\ \A h \in Entries : /\ h.how = "atomic_update"
                               /\ h.overlapped
                               /\ h.faults = {} )
       => /\ \A h \in Entries : h.result = "True"
          /\ \E h \in Entries : h.id = last_copy /\ store[K] = JsonDumps(h.data)
          /\ \A k \in AllKeys \ {K} : store[k] = NotFound

\* C7 witness: both calls returned success and the call that returned
\* first is the one whose copy landed last
C7_Witness ==
    /\ RealStore
    /\ Len(history) = 2
    /\ \A h \in Entries : h.how = "atomic_update" /\ h.overlapped /\ h.faults = {}
    /\ history[1].data # history[2].data
    /\ history[1].id = last_copy
    /\ store[K] = JsonDumps(history[1].data)

\* ------------------------------------------------------------------------
\* AlphaVantageClient._make_api_request
\* ------------------------------------------------------------------------
\* max_retries: int = 3
DefaultMaxRetries == 3

ExpectedKeys == {"1. open", "2. high", "3. low", "4. close", "5. volume"}

Container == "Time Series (Daily)"

\* a response: the exception of the transport, or the JSON document of a
\* 2xx answer given by its top-level keys and, per day in document order,
\* the keys of the day's record
Resp(kind, top, series) == [kind |-> kind, top |-> top, series |-> series]

TransportErrors == {"timeout", "connection_error", "http_error"}

ValidResponse == Resp("json", {"Meta Data", Container}, <<ExpectedKeys, ExpectedKeys>>)

Responses ==
    {Resp(k, {}, <<>>) : k \in TransportErrors} \cup
    { ValidResponse,
      Resp("json", {"Note"}, <<>>),
      Resp("json", {"Meta Data", Container}, <<ExpectedKeys \ {"2. high"}, ExpectedKeys>>),
      Resp("json", {"Meta Data", Container}, <<ExpectedKeys \cup {"6. adjusted"}>>),
      Resp("json", {"Meta Data", Container}, <<ExpectedKeys, ExpectedKeys \ {"2. high"}>>),
      Resp("json", {"Meta Data", Container}, <<>>) }

\* mutant: validation errors are caught by the generic handler and retried
HandleResponse_RetryAll(r) ==
    IF r.kind \in TransportErrors THEN "retry"
    ELSE IF Container \notin r.top THEN "retry"
    ELSE IF r.series = <<>> THEN "retry"
    ELSE IF r.series[1] # ExpectedKeys THEN "retry"
    ELSE "return_data"

\* the try block of one iteration and its except clauses (lines 79-113):
\* RequestException -> next iteration; ValueError -> return None; any
\* other exception (StopIteration of next(iter({}))) -> next iteration
HandleResponse(r) ==
    IF r.kind \in TransportErrors THEN "retry"
    ELSE IF Container \notin r.top THEN "return_none"
    ELSE IF r.series = <<>> THEN "retry"
    ELSE IF r.series[1] # ExpectedKeys THEN "return_none"
    ELSE "return_data"

\* mutant: the loop stops one attempt early
LoopContinues_OffByOne(count, max_retries) == count < max_retries

\* while retry_count <= max_retries
LoopContinues(count, max_retries) == count <= max_retries

\* mutant: the backoff sleep also follows the last attempt
SleepsAfter_LastToo(count, max_retries) == count <= max_retries

\* if retry_count < max_retries: sleep
SleepsAfter(count, max_retries) == count < max_retries

RECURSIVE Pow2(_)
Pow2(n) == IF n = 0 THEN 1 ELSE 2 * Pow2(n - 1)

\* n / d rounded to the nearest integer, ties to even
RoundDiv(n, d) ==
    LET q == n \div d
        r == n % d
    IN IF 2 * r > d THEN q + 1
       ELSE IF 2 * r < d THEN q
       ELSE IF q % 2 = 0 THEN q ELSE q + 1

\* random.random() returns a multiple of 2^-53 in [0, 1) and a float has
\* a significand of 53 bits; the model keeps this format with
\* FractionBits bits in place of the 53
FractionBits == 4

\* one second, delays being held in units of 2^-FractionBits s
Second == Pow2(FractionBits)

\* values sampled for random.uniform(0, 1) = 0 + (1 - 0) * random(): the
\* least, the middle and the greatest value of random()
Jitters == {0, Second \div 2, Second - 1}

\* sleep_time = (2 ** retry_count) + random.uniform(0, 1): the float
\* addition returns the float nearest to the exact sum, ties to even, and
\* the floats from 2^count to 2^(count+1) are 2^(count+1) units apart
SleepTime(count, jitter) ==
    Pow2(count + 1) * RoundDiv(Pow2(count) * Second + jitter, Pow2(count + 1))

\* one iteration of the while loop: the request, the handling of its
\* outcome, the backoff sleep, the increment, and the exit of the loop
Request ==
    /\ fc_pc = "loop"
    /\ LoopContinues(retry_count, fc_max_retries)
    /\ \E r \in Responses, jitter \in Jitters :
        LET outcome == HandleResponse(r)
        IN /\ fc_log' = Append(fc_log, r)
           /\ IF outcome = "return_data"
              THEN /\ fc_result' = "data"
                   /\ fc_pc' = "done"
                   /\ UNCHANGED <<retry_count, fc_sleeps>>
              ELSE IF outcome = "return_none"
              THEN /\ fc_result' = "None"
                   /\ fc_pc' = "done"
                   /\ UNCHANGED <<retry_count, fc_sleeps>>
              ELSE /\ fc_sleeps' = IF SleepsAfter(retry_count, fc_max_retries)
                                   THEN Append(fc_sleeps, SleepTime(retry_count, jitter))
                                   ELSE fc_sleeps
                   /\ retry_count' = retry_count + 1
                   /\ IF LoopContinues(retry_count + 1, fc_max_retries)
                      THEN UNCHANGED <<fc_pc, fc_result>>
                      ELSE fc_pc' = "done" /\ fc_result' = "None"
    /\ UNCHANGED fc_max_retries
    /\ UNCHANGED <<atomicVars, mockVars, gateVars, keyVars, migVars, jobVars, storageVars, lambdaVars>>

\* ------------------------------------------------------------------------
\* StockDataProcessor._run_quality_checks, row by row
\* ------------------------------------------------------------------------
\* prices are held in units of 1/PriceScale (the four decimals of the feed)
PriceScale == 10000

Row(date, open, high, low, close, volume) ==
    [date |-> date, open |-> open, high |-> high, low |-> low,
     close |-> close, volume |-> volume]

\* (df["volume"] == 0)
RowZeroVolume(r) == r.volume = 0

\* (df[["open", "high", "low", "close"]] < 0)
RowNegative(r) == r.open < 0 \/ r.high < 0 \/ r.low < 0 \/ r.close < 0

\* low > high, close outside [low, high], open outside [low, high]
RowInconsistent(r) ==
    \/ r.low > r.high
    \/ r.close > r.high \/ r.close < r.low
    \/ r.open > r.high \/ r.open < r.low

\* ------------------------------------------------------------------------
\* AlphaVantageClient._get_mock_data
\* ------------------------------------------------------------------------
\* num_days = 100 if outputsize == 'compact' else 500
CompactDays == 100
FullDays == 500
NumDays(outputsize) == IF outputsize = "compact" THEN CompactDays ELSE FullDays

\* base_price = 100.0
StartPrice == 100

\* number of final days on which close is also sampled at low and at high
\* (on the days before, close is sampled at open)
TailDays == 1

\* day number of datetime.now()
Today == 20000

\* values sampled for random.uniform(-5, 5), uniform(1.0, 1.05) and
\* uniform(0.95, 1.0) (in percent), and int(random.uniform(1000000, 10000000))
DailyChanges == {-5, 5}
HighFactors == {100, 105}
LowFactors == {95, 100}
Volumes == {1000000}

\* price * factor, the factor in percent (price * pct / 100, computed as
\* price + price * (pct - 100) / 100 to stay within 32-bit integers)
MulPct(price, pct) == price + RoundDiv(price * (pct - 100), 100)

\* open_price = base_price + daily_change
MockOpen(base, change) == base + change * PriceScale

\* one iteration of the generation loop (lines 150-171): the row of day
\* today - i is stored under its date and base_price becomes its close
MockDay ==
    /\ mk_pc = "gen"
    /\ mk_i < NumDays(mk_outputsize)
    /\ \E change \in DailyChanges, hf \in HighFactors, lf \in LowFactors,
          sel \in {"low", "open", "high"}, volume \in Volumes :
        LET date == Today - mk_i
            open == MockOpen(mk_base, change)
            high == MulPct(open, hf)
            low == MulPct(open, lf)
            close == IF sel = "low" THEN low ELSE IF sel = "high" THEN high ELSE open
            row == Row(date, open, high, low, close, volume)
            fresh == mk_i = 0 \/ date < mk_last_date
        IN /\ (sel # "open") => mk_i >= NumDays(mk_outputsize) - TailDays
           /\ mk_last_date' = date
           /\ mk_base' = close
           /\ mk_distinct' = (mk_distinct /\ fresh)
           /\ mk_count' = IF fresh THEN mk_count + 1 ELSE mk_count
           /\ mk_zero_volume' = (mk_zero_volume \/ RowZeroVolume(row))
           /\ mk_negative' = (mk_negative \/ RowNegative(row))
           /\ mk_inconsistent' = (mk_inconsistent \/ RowInconsistent(row))
    /\ mk_i' = mk_i + 1
    /\ mk_pc' = IF mk_i + 1 < NumDays(mk_outputsize) THEN "gen" ELSE "done"
    /\ UNCHANGED mk_outputsize
    /\ UNCHANGED <<atomicVars, fetchVars, gateVars, keyVars, migVars, jobVars, storageVars, lambdaVars>>

\* ------------------------------------------------------------------------
\* Character strings: a string is the sequence of its pieces, a piece being
\* a separator or a run of text that holds no separator
\* ------------------------------------------------------------------------
RECURSIVE Split(_, _)
\* str.split(sep): the runs between the occurrences of sep
Split(s, sep) ==
    IF \A i \in 1..Len(s) : s[i] # sep THEN <<s>>
    ELSE LET i == CHOOSE j \in 1..Len(s) :
                      s[j] = sep /\ \A k \in 1..(j - 1) : s[k] # sep
         IN <<SubSeq(s, 1, i - 1)>> \o Split(SubSeq(s, i + 1, Len(s)), sep)

\* ------------------------------------------------------------------------
\* StockDataProcessor.validate_and_transform
\* ------------------------------------------------------------------------
\* largest number of days of the raw series drawn exhaustively
MaxRows == 2

\* a column name of the feed: "1. open"
Col(n, name) == <<n, ". ", name>>

RawColumns == {Col("1", "open"), Col("2", "high"), Col("3", "low"),
               Col("4", "close"), Col("5", "volume")}

PriceColumns == {<<"open">>, <<"high">>, <<"low">>, <<"close">>}

\* the values of the raw document: the text of a number, any other text,
\* JSON null; FloatNaN is what from_dict puts where a record lacks a field
NumStr(n) == [kind |-> "number", val |-> n]
TextStr == [kind |-> "text", val |-> 0]
JsonNull == [kind |-> "null", val |-> 0]
FloatNaN == [kind |-> "nan", val |-> 0]

\* the cells of the numeric frame
NaN == [null |-> TRUE, val |-> 0]
Num(n) == [null |-> FALSE, val |-> n]

\* the keys of the series: a date in the feed's YYYY-MM-DD form (given by
\* its day number), or a text that is no date
IsoDate(d) == [fmt |-> "iso", day |-> d]
BadDate == [fmt |-> "text", day |-> 0]

\* stock_data.get(key, default)
DictGet(d, key, default) == IF key \in DOMAIN d THEN d[key] ELSE default

\* a frame: its columns and its rows in index order; error names the
\* exception raised while it was computed
Frame(cols, rows) == [error |-> "none", columns |-> cols, rows |-> rows]
Raised(e) == [error |-> e, columns |-> {}, rows |-> <<>>]
NoneDF == [error |-> "None", columns |-> {}, rows |-> <<>>]

NoResult == [valid |-> FALSE, df |-> NoneDF]

\* pd.DataFrame.from_dict(time_series, orient="index"): one row per key in
\* insertion order, one column per field name met, NaN where a record has
\* no such field
FromDict(ts) ==
    LET cols == UNION {DOMAIN ts[i].fields : i \in 1..Len(ts)}
    IN Frame(cols,
             [i \in 1..Len(ts) |->
                [date |-> ts[i].date,
                 cells |-> [c \in cols |-> IF c \in DOMAIN ts[i].fields
                                           THEN ts[i].fields[c] ELSE FloatNaN]]])

\* df.columns = [col.split('. ')[1] for col in df.columns]
RenameColumns(df) ==
    IF df.error # "none" THEN df
    ELSE IF \E c \in df.columns : Len(Split(c, ". ")) < 2 THEN Raised("IndexError")
    ELSE LET name(c) == Split(c, ". ")[2]
             cols == {name(c) : c \in df.columns}
         IN Frame(cols,
                  [i \in 1..Len(df.rows) |->
                     [date |-> df.rows[i].date,
                      cells |-> [n \in cols |->
                          df.rows[i].cells[CHOOSE c \in df.columns : name(c) = n]]]])

\* pd.to_numeric(errors='coerce') of one value
ToNumeric(v) == IF v.kind = "number" THEN Num(v.val) ELSE NaN

\* df.apply(pd.to_numeric, errors='coerce')
ApplyToNumeric(df) ==
    IF df.error # "none" THEN df
    ELSE Frame(df.columns,
               [i \in 1..Len(df.rows) |->
                  [date |-> df.rows[i].date,
                   cells |-> [c \in df.columns |-> ToNumeric(df.rows[i].cells[c])]]])

\* df.index = pd.to_datetime(df.index)
ToDatetime(df) ==
    IF df.error # "none" THEN df
    ELSE IF \E i \in 1..Len(df.rows) : df.rows[i].date.fmt # "iso"
    THEN Raised("ValueError")
    ELSE Frame(df.columns,
               [i \in 1..Len(df.rows) |->
                  [date |-> df.rows[i].date.day, cells |-> df.rows[i].cells]])

\* xs without its i-th element
RemoveAt(xs, i) == SubSeq(xs, 1, i - 1) \o SubSeq(xs, i + 1, Len(xs))

\* mutant: the rows are left in the order received
SortRowsDescending_Unsorted(rows) == rows

RECURSIVE SortRowsDescending(_)
\* the rows ordered by date, greatest first
SortRowsDescending(rows) ==
    IF rows = <<>> THEN <<>>
    ELSE LET i == CHOOSE j \in 1..Len(rows) :
                      /\ \A k \in 1..Len(rows) : rows[k].date <= rows[j].date
                      /\ \A k \in 1..(j - 1) : rows[k].date < rows[j].date
         IN <<rows[i]>> \o SortRowsDescending(RemoveAt(rows, i))

\* df.sort_index(ascending=False)
SortIndex(df) ==
    IF df.error # "none" THEN df
    ELSE Frame(df.columns, SortRowsDescending(df.rows))

RECURSIVE SortAscending(_)
\* numbers in ascending order
SortAscending(xs) ==
    IF xs = <<>> THEN <<>>
    ELSE LET i == CHOOSE j \in 1..Len(xs) : \A k \in 1..Len(xs) : xs[j] <= xs[k]
         IN <<xs[i]>> \o SortAscending(RemoveAt(xs, i))

\* 100 * Series.quantile(0.99): linear interpolation at position
\* 0.99 * (n - 1) of the sorted values
Quantile99(xs) ==
    LET sorted == SortAscending(xs)
        pos == 99 * (Len(xs) - 1)
        lo == pos \div 100
        fr == pos % 100
    IN IF fr = 0 THEN 100 * sorted[lo + 1]
       ELSE (100 - fr) * sorted[lo + 1] + fr * sorted[lo + 2]

\* df[df[col] > df[col].quantile(0.99) * 10] is not empty
HasOutlier(xs) == \E i \in 1..Len(xs) : 100 * xs[i] > 10 * Quantile99(xs)

ColumnValues(df, col) == [i \in 1..Len(df.rows) |-> df.rows[i].cells[col].val]

\* a row of the numeric frame as a bar
Bar(r) == Row(r.date, r.cells[<<"open">>].val, r.cells[<<"high">>].val,
              r.cells[<<"low">>].val, r.cells[<<"close">>].val,
              r.cells[<<"volume">>].val)

\* mutant: the zero volume check is skipped
AnyZeroVolume_Skipped(df) == FALSE

\* (df["volume"] == 0).any()
AnyZeroVolume(df) ==
    \E i \in 1..Len(df.rows) :
        RowZeroVolume([volume |-> df.rows[i].cells[<<"volume">>].val])

\* mutant: only low > high counts as an inconsistency
AnyInconsistent_LowHighOnly(df) ==
    \E i \in 1..Len(df.rows) : Bar(df.rows[i]).low > Bar(df.rows[i]).high

\* the three consistency tests of lines 107-121
AnyInconsistent(df) == \E i \in 1..Len(df.rows) : RowInconsistent(Bar(df.rows[i]))

\* _run_quality_checks(df): "True", "False", or the KeyError of a column
\* the frame does not have
RunQualityChecks(df) ==
    IF \E i \in 1..Len(df.rows) : \E c \in df.columns : df.rows[i].cells[c].null
    THEN "False"
    ELSE IF <<"volume">> \notin df.columns THEN "KeyError"
    ELSE IF AnyZeroVolume(df) THEN "False"
    ELSE IF ~(PriceColumns \subseteq df.columns) THEN "KeyError"
    ELSE IF \E i \in 1..Len(df.rows) : RowNegative(Bar(df.rows[i])) THEN "False"
    ELSE IF \E c \in PriceColumns : HasOutlier(ColumnValues(df, c)) THEN "False"
    ELSE IF AnyInconsistent(df) THEN "False"
    ELSE "True"

\* mutant: the frame is returned whatever the checks said
ReturnPair_KeepFrame(validation_result, df) == [valid |-> validation_result, df |-> df]

\* return validation_result, df if validation_result else None
ReturnPair(validation_result, df) ==
    [valid |-> validation_result, df |-> IF validation_result THEN df ELSE NoneDF]

\* validate_and_transform(stock_data)
ValidateAndTransform(stock_data) ==
    LET time_series == DictGet(stock_data, Container, <<>>)
    IN IF time_series = <<>> THEN [valid |-> FALSE, df |-> NoneDF]
       ELSE LET df == SortIndex(ToDatetime(ApplyToNumeric(RenameColumns(
                          FromDict(time_series)))))
            IN IF df.error # "none" THEN [valid |-> FALSE, df |-> NoneDF]
               ELSE LET validation_result == RunQualityChecks(df)
                    IN IF validation_result = "KeyError"
                       THEN [valid |-> FALSE, df |-> NoneDF]
                       ELSE ReturnPair(validation_result = "True", df)

\* df.head(n)
DfHead(df, n) ==
    [df EXCEPT !.rows = SubSeq(df.rows, 1, IF Len(df.rows) < n THEN Len(df.rows) ELSE n)]

\* extract_latest_data(df)
ExtractLatestData(df) == DfHead(df, 1)

\* the records sampled for one day
Fields(o, h, l, c, v) ==
    [col \in RawColumns |->
        IF col = Col("1", "open") THEN NumStr(o)
        ELSE IF col = Col("2", "high") THEN NumStr(h)
        ELSE IF col = Col("3", "low") THEN NumStr(l)
        ELSE IF col = Col("4", "close") THEN NumStr(c)
        ELSE NumStr(v)]

CleanFields == Fields(100, 110, 90, 105, 1000)

DayRecords ==
    { CleanFields,
      Fields(50, 50, 50, 50, 1),
      Fields(0, 0, 0, 0, 7),
      Fields(100, 110, 90, 105, 0),
      Fields(100, 110, -1, 105, 1000),
      Fields(115, 110, 120, 115, 1000),
      Fields(100, 110, 90, 111, 1000),
      Fields(80, 110, 90, 105, 1000),
      [CleanFields EXCEPT ![Col("2", "high")] = TextStr],
      [CleanFields EXCEPT ![Col("4", "close")] = JsonNull],
      [col \in RawColumns \ {Col("5", "volume")} |-> CleanFields[col]],
      [col \in (RawColumns \ {Col("5", "volume")}) \cup {<<"volume">>} |->
          IF col = <<"volume">> THEN NumStr(1000) ELSE CleanFields[col]] }

DateKeys == {IsoDate(d) : d \in 1..(MaxRows + 1)} \cup {BadDate}

RawDay(date, fields) == [date |-> date, fields |-> fields]

\* the "Time Series (Daily)" objects of up to MaxRows days: the keys of a
\* JSON object are distinct, their order is the document's
RawSeries ==
    {s \in UNION {[1..n -> {RawDay(k, f) : k \in DateKeys, f \in DayRecords}] :
                     n \in 0..MaxRows} :
        \A i, j \in 1..Len(s) : i # j => s[i].date # s[j].date}

\* five clean days 2024-01-05 .. 2024-01-01 in descending order, the same
\* in ascending order, and the descending series with volume 0 on 01-03
FiveDaysDescending == [i \in 1..5 |-> RawDay(IsoDate(6 - i), CleanFields)]
FiveDaysAscending == [i \in 1..5 |-> RawDay(IsoDate(i), CleanFields)]
FiveDaysZeroVolume ==
    [FiveDaysDescending EXCEPT ![3] = RawDay(IsoDate(3), Fields(100, 110, 90, 105, 0))]

\* the documents handed to validate_and_transform
StockDocuments ==
    {<<>>} \cup
    {(Container :> s) @@ ("Meta Data" :> <<>>) :
        s \in RawSeries \cup {FiveDaysDescending, FiveDaysAscending, FiveDaysZeroVolume}}

\* data_processor.validate_and_transform(stock_data) is called
Validate ==
    /\ qg_pc = "raw"
    /\ qg_result' = ValidateAndTransform(qg_stock_data)
    /\ qg_pc' = "validated"
    /\ UNCHANGED <<qg_stock_data, qg_latest, qg_documents>>
    /\ UNCHANGED <<atomicVars, fetchVars, mockVars, keyVars, migVars, jobVars, storageVars, lambdaVars>>

\* data_processor.extract_latest_data(df) is called on the accepted frame
ExtractLatest ==
    /\ qg_pc = "validated"
    /\ qg_result.valid
    /\ qg_latest' = ExtractLatestData(qg_result.df)
    /\ qg_pc' = "extracted"
    /\ UNCHANGED <<qg_stock_data, qg_result, qg_documents>>
    /\ UNCHANGED <<atomicVars, fetchVars, mockVars, keyVars, migVars, jobVars, storageVars, lambdaVars>>

\* ------------------------------------------------------------------------
\* utils/s3_paths.py: the key scheme
\* ------------------------------------------------------------------------
\* a call that returned `key`, and a call that raised exception e
Returned(key) == [error |-> "none", key |-> key]
Raises(e) == [error |-> e, key |-> <<>>]

\* None, and the empty string, of an optional string argument or field
NoneStr == <<>>

Slash == <<"/">>

RECURSIVE Join(_, _)
\* sep.join(parts)
Join(parts, sep) ==
    IF parts = <<>> THEN <<>>
    ELSE IF Len(parts) = 1 THEN parts[1]
    ELSE parts[1] \o <<sep>> \o Join(Tail(parts), sep)

\* s.startswith(prefix)
StartsWith(s, prefix) == Len(s) >= Len(prefix) /\ SubSeq(s, 1, Len(prefix)) = prefix

\* the text lowered, for the values MOCK_MODE takes here
Lower(s) == IF s = "TRUE" THEN "true" ELSE IF s = "True" THEN "true" ELSE s

\* os.environ.get("MOCK_MODE", "false").lower() == "true"
EnvIsMock(environ) == Lower(IF environ = "unset" THEN "false" ELSE environ) = "true"

\* mutant: the environments are swapped
EnvPrefix_Swapped(is_mock, environ) ==
    IF (IF is_mock = "None" THEN EnvIsMock(environ) ELSE is_mock = "True")
    THEN <<"prod">> ELSE <<"test">>

\* env_prefix = "test" if is_mock else "prod", is_mock read from the
\* environment when it is None
EnvPrefix(is_mock, environ) ==
    IF (IF is_mock = "None" THEN EnvIsMock(environ) ELSE is_mock = "True")
    THEN <<"test">> ELSE <<"prod">>

\* f"{env_prefix}/stock/{data_type}/{symbol}"
BasePath(env_prefix, data_type, symbol) ==
    env_prefix \o Slash \o <<"stock">> \o Slash \o data_type \o Slash \o symbol

\* mutant: the date is not split into year, month and day
DailyPath_Flat(date) == Returned(<<"daily">> \o Slash \o date \o <<".", "json">>)

\* year, month, day = date.split("-"); "daily/{year}/{month}/{day}.json"
DailyPath(date) ==
    LET ymd == Split(date, "-")
    IN IF Len(ymd) # 3 THEN Raises("ValueError")
       ELSE Returned(<<"daily">> \o Slash \o ymd[1] \o Slash \o ymd[2] \o Slash
                     \o ymd[3] \o <<".", "json">>)

\* get_s3_key(symbol, data_type, date, is_latest, is_mock)
GetS3Key(symbol, data_type, date, is_latest, is_mock, environ) ==
    LET base_path == BasePath(EnvPrefix(is_mock, environ), data_type, symbol)
    IN IF is_latest THEN Returned(base_path \o Slash \o <<"latest", ".", "json">>)
       ELSE IF date # NoneStr
       THEN IF DailyPath(date).error # "none" THEN DailyPath(date)
            ELSE Returned(base_path \o Slash \o DailyPath(date).key)
       ELSE Returned(base_path \o Slash \o <<"full", ".", "json">>)

\* get_metadata_key(symbol, data_type, is_mock)
GetMetadataKey(symbol, data_type, is_mock, environ) ==
    Returned(BasePath(EnvPrefix(is_mock, environ), data_type, symbol)
             \o Slash \o <<"metadata", ".", "json">>)

\* mutant: Config takes the prefix of the other environment
ConfigEnvPrefix_Swapped(self_mock_mode) == IF self_mock_mode THEN <<"prod">> ELSE <<"test">>

\* Config: env_prefix = 'test' if self.mock_mode else 'prod'
ConfigEnvPrefix(self_mock_mode) == IF self_mock_mode THEN <<"test">> ELSE <<"prod">>

\* Config.get_s3_key_v2(symbol, data_type, date, is_latest) with
\* self.mock_mode
GetS3KeyV2(self_mock_mode, symbol, data_type, date, is_latest) ==
    LET base_path == ConfigEnvPrefix(self_mock_mode) \o <<"/", "stock", "/">> \o data_type
                        \o <<"/">> \o symbol
        ymd == Split(date, "-")
    IN IF is_latest THEN Returned(base_path \o <<"/", "latest", ".", "json">>)
       ELSE IF date # NoneStr
       THEN IF Len(ymd) # 3 THEN Raises("ValueError")
            ELSE Returned(base_path \o <<"/", "daily", "/">> \o ymd[1] \o <<"/">>
                          \o ymd[2] \o <<"/">> \o ymd[3] \o <<".", "json">>)
       ELSE Returned(base_path \o <<"/", "full", ".", "json">>)

\* Config.get_metadata_key_v2(symbol, data_type)
GetMetadataKeyV2(self_mock_mode, symbol, data_type) ==
    Returned(ConfigEnvPrefix(self_mock_mode) \o <<"/", "stock", "/">> \o data_type
             \o <<"/">> \o symbol \o <<"/", "metadata", ".", "json">>)

\* the dict parse_s3_key returns; a field it does not set is NoneStr
\* ("none" for key_type)
KeyInfo(version, env, data_type, symbol, key_type, date, prefix) ==
    [error |-> "none", version |-> version, environment |-> env,
     data_type |-> data_type, symbol |-> symbol, key_type |-> key_type,
     date |-> date, prefix |-> prefix]

\* {"version": "unknown", "key": s3_key}
UnknownInfo == KeyInfo("unknown", NoneStr, NoneStr, NoneStr, "none", NoneStr, NoneStr)

\* parse_s3_key raised exception e
InfoRaises(e) == [UnknownInfo EXCEPT !.error = e, !.version = "none"]

\* the name of a file among the names the scheme knows
FileKeyType(part) ==
    IF part = <<"latest", ".", "json">> THEN "latest"
    ELSE IF part = <<"full", ".", "json">> THEN "full"
    ELSE IF part = <<"metadata", ".", "json">> THEN "metadata"
    ELSE "none"

\* mutant: the extension is kept
StripExtension_Kept(part) == part

\* part.split(".")[0]
StripExtension(part) == Split(part, ".")[1]

\* parse_s3_key(s3_key); parts[n] of the code is parts[n + 1] here
ParseS3Key(s3_key) ==
    LET parts == Split(s3_key, "/")
    IN IF Len(parts) >= 5 /\ parts[2] = <<"stock">>
       THEN IF Len(parts) >= 7 /\ parts[5] = <<"daily">>
            THEN IF Len(parts) < 8 THEN InfoRaises("IndexError")
                 ELSE KeyInfo("v2", parts[1], parts[3], parts[4], "daily",
                              parts[6] \o <<"-">> \o parts[7] \o <<"-">>
                                  \o StripExtension(parts[8]),
                              NoneStr)
            ELSE IF FileKeyType(parts[5]) # "none"
            THEN KeyInfo("v2", parts[1], parts[3], parts[4], FileKeyType(parts[5]),
                         NoneStr, NoneStr)
            ELSE UnknownInfo
       ELSE IF Len(parts) >= 3 /\ parts[1] = <<"daily">>
       THEN KeyInfo("lambda", NoneStr, NoneStr, parts[2], "daily",
                    StripExtension(parts[3]), NoneStr)
       ELSE IF Len(parts) >= 3 /\ StartsWith(parts[1], <<"stock", "-", "data">>)
       THEN IF Len(parts) >= 4 /\ parts[3] = <<"daily">>
            THEN KeyInfo("v1", NoneStr, NoneStr, parts[2], "daily",
                         StripExtension(parts[4]), parts[1])
            ELSE IF FileKeyType(parts[3]) # "none"
            THEN KeyInfo("v1", NoneStr, NoneStr, parts[2], FileKeyType(parts[3]),
                         NoneStr, parts[1])
            ELSE UnknownInfo
       ELSE UnknownInfo

\* kwargs.get(name, default)
KwGet(kwargs, name, default) == IF name \in DOMAIN kwargs THEN kwargs[name] ELSE default

\* mutant: every key type is given a key of the lambda layout
ConvertToLambda_AnyType(symbol, key_type, date) ==
    IF key_type = "daily"
    THEN IF date = NoneStr THEN Raises("ValueError")
         ELSE Returned(<<"daily">> \o Slash \o symbol \o Slash \o date \o <<".", "json">>)
    ELSE Returned(<<"daily">> \o Slash \o symbol \o Slash \o <<key_type, ".", "json">>)

\* the branch of convert_key_format for target_version == "lambda": daily
\* keys only
ConvertToLambda(symbol, key_type, date) ==
    IF key_type = "daily"
    THEN IF date = NoneStr THEN Raises("ValueError")
         ELSE Returned(<<"daily">> \o Slash \o symbol \o Slash \o date \o <<".", "json">>)
    ELSE Raises("ValueError")

\* convert_key_format(s3_key, target_version, **kwargs)
ConvertKeyFormat(s3_key, target_version, kwargs, environ) ==
    LET key_info == ParseS3Key(s3_key)
        symbol == key_info.symbol
        key_type == key_info.key_type
        date == key_info.date
    IN IF key_info.error # "none" THEN Raises(key_info.error)
       ELSE IF symbol = NoneStr \/ key_type = "none" THEN Raises("ValueError")
       ELSE IF target_version = "v2"
       THEN LET data_type == KwGet(kwargs, "data_type", <<"raw">>)
                is_mock == KwGet(kwargs, "is_mock",
                                 IF key_info.environment = <<"test">> THEN "True" ELSE "False")
            IN IF key_type = "daily"
               THEN IF date = NoneStr THEN Raises("ValueError")
                    ELSE GetS3Key(symbol, data_type, date, FALSE, is_mock, environ)
               ELSE IF key_type = "latest"
               THEN GetS3Key(symbol, data_type, NoneStr, TRUE, is_mock, environ)
               ELSE IF key_type = "full"
               THEN GetS3Key(symbol, data_type, NoneStr, FALSE, is_mock, environ)
               ELSE GetMetadataKey(symbol, data_type, is_mock, environ)
       ELSE IF target_version = "lambda"
       THEN ConvertToLambda(symbol, key_type, date)
       ELSE IF target_version = "v1"
       THEN LET prefix == KwGet(kwargs, "prefix", <<"stock", "-", "data", "-", "mock">>)
            IN IF key_type = "daily"
               THEN IF date = NoneStr THEN Raises("ValueError")
                    ELSE Returned(prefix \o Slash \o symbol \o Slash \o <<"daily">>
                                  \o Slash \o date \o <<".", "json">>)
               ELSE Returned(prefix \o Slash \o symbol \o Slash
                             \o <<key_type, ".", "json">>)
       ELSE Raises("ValueError")

\* the arguments sampled
Symbols == {<<"NVDA">>, <<"BRK", ".", "B">>, <<"daily">>, <<"stock">>}
DataTypes == {<<"raw">>, <<"processed">>}
WellFormedDates == {<<"2024", "-", "01", "-", "01">>, <<"2023", "-", "12", "-", "31">>}
MalformedDates == {<<"20240101">>}
IsMockArgs == {"True", "False", "None"}
MockEnvs == {"unset", "TRUE", "false"}
V1Prefixes == {<<"stock", "-", "data">>, <<"stock", "-", "data", "-", "mock">>}
TargetVersions == {"v1", "v2", "lambda", "v3"}

\* the keyword arguments sampled for convert_key_format
KwArgSets ==
    {<<>>} \cup
    {[data_type |-> d] : d \in DataTypes} \cup
    {[is_mock |-> m] : m \in {"True", "False"}} \cup
    {[data_type |-> d, is_mock |-> m] : d \in DataTypes, m \in {"True", "False"}} \cup
    {[prefix |-> p] : p \in V1Prefixes}

\* keys of the three layouts as they are found in a bucket
LayoutKeys ==
    {GetS3Key(s, d, dt, l, m, "unset").key :
        s \in Symbols, d \in DataTypes, dt \in WellFormedDates \cup {NoneStr},
        l \in BOOLEAN, m \in {"True", "False"}} \cup
    {GetMetadataKey(s, d, m, "unset").key :
        s \in Symbols, d \in DataTypes, m \in {"True", "False"}} \cup
    {p \o Slash \o s \o Slash \o <<f, ".", "json">> :
        p \in V1Prefixes, s \in Symbols, f \in {"latest", "full", "metadata"}} \cup
    {p \o Slash \o s \o Slash \o <<"daily">> \o Slash \o dt \o <<".", "json">> :
        p \in V1Prefixes, s \in Symbols, dt \in WellFormedDates \cup MalformedDates} \cup
    {<<"daily">> \o Slash \o s \o Slash \o dt \o <<".", "json">> :
        s \in Symbols, dt \in WellFormedDates \cup MalformedDates}

\* the keys handed to parse_s3_key: the keys of the layouts, each cut after
\* any number of its parts, each with one more part, and other names
ListedKeys ==
    LayoutKeys \cup
    UNION {{Join(SubSeq(Split(k, "/"), 1, n), "/") : n \in 0..Len(Split(k, "/"))} :
              k \in LayoutKeys} \cup
    {k \o Slash \o <<"x">> : k \in LayoutKeys} \cup
    {<<"prod">> \o Slash \o <<"stock">> \o Slash \o <<"raw">> \o Slash \o <<"NVDA">>
        \o Slash \o <<"other", ".", "json">>,
     <<"stocks">> \o Slash \o <<"NVDA">> \o Slash \o <<"latest", ".", "json">>}

Origin(func, symbol, data_type, date, is_latest, is_mock) ==
    [func |-> func, symbol |-> symbol, data_type |-> data_type, date |-> date,
     is_latest |-> is_latest, is_mock |-> is_mock]

NoOrigin == Origin("none", NoneStr, NoneStr, NoneStr, FALSE, "None")
NoInfo == InfoRaises("not called")
NoConv == [target |-> "none", kwargs |-> <<>>, result |-> Raises("not called")]

\* get_s3_key is called
BuildKey ==
    /\ ks_pc = "start"
    /\ \E symbol \in Symbols, data_type \in DataTypes,
          date \in WellFormedDates \cup MalformedDates \cup {NoneStr},
          is_latest \in BOOLEAN, is_mock \in IsMockArgs :
        LET r == GetS3Key(symbol, data_type, date, is_latest, is_mock, ks_mock_env)
        IN /\ ks_origin' = Origin("get_s3_key", symbol, data_type, date, is_latest, is_mock)
           /\ ks_key' = r.key
           /\ ks_pc' = IF r.error = "none" THEN "built" ELSE "raised"
    /\ UNCHANGED <<ks_mock_env, ks_info, ks_conv>>
    /\ UNCHANGED <<atomicVars, fetchVars, mockVars, gateVars, migVars, jobVars, storageVars, lambdaVars>>

\* get_metadata_key is called
BuildMetadataKey ==
    /\ ks_pc = "start"
    /\ \E symbol \in Symbols, data_type \in DataTypes, is_mock \in IsMockArgs :
        LET r == GetMetadataKey(symbol, data_type, is_mock, ks_mock_env)
        IN /\ ks_origin' = Origin("get_metadata_key", symbol, data_type, NoneStr, FALSE, is_mock)
           /\ ks_key' = r.key
           /\ ks_pc' = "built"
    /\ UNCHANGED <<ks_mock_env, ks_info, ks_conv>>
    /\ UNCHANGED <<atomicVars, fetchVars, mockVars, gateVars, migVars, jobVars, storageVars, lambdaVars>>

\* config.get_s3_key_v2 is called, as process_symbol does for the full,
\* latest and daily keys
BuildKeyV2 ==
    /\ ks_pc = "start"
    /\ \E symbol \in Symbols, data_type \in DataTypes,
          date \in WellFormedDates \cup MalformedDates \cup {NoneStr},
          is_latest \in BOOLEAN, self_mock_mode \in BOOLEAN :
        LET r == GetS3KeyV2(self_mock_mode, symbol, data_type, date, is_latest)
        IN /\ ks_origin' = Origin("get_s3_key_v2", symbol, data_type, date, is_latest,
                                  IF self_mock_mode THEN "True" ELSE "False")
           /\ ks_key' = r.key
           /\ ks_pc' = IF r.error = "none" THEN "built" ELSE "raised"
    /\ UNCHANGED <<ks_mock_env, ks_info, ks_conv>>
    /\ UNCHANGED <<atomicVars, fetchVars, mockVars, gateVars, migVars, jobVars, storageVars, lambdaVars>>

\* config.get_metadata_key_v2 is called
BuildMetadataKeyV2 ==
    /\ ks_pc = "start"
    /\ \E symbol \in Symbols, data_type \in DataTypes, self_mock_mode \in BOOLEAN :
        LET r == GetMetadataKeyV2(self_mock_mode, symbol, data_type)
        IN /\ ks_origin' = Origin("get_metadata_key_v2", symbol, data_type, NoneStr, FALSE,
                                  IF self_mock_mode THEN "True" ELSE "False")
           /\ ks_key' = r.key
           /\ ks_pc' = "built"
    /\ UNCHANGED <<ks_mock_env, ks_info, ks_conv>>
    /\ UNCHANGED <<atomicVars, fetchVars, mockVars, gateVars, migVars, jobVars, storageVars, lambdaVars>>

\* a key is read from a listing of the bucket
ListKey ==
    /\ ks_pc = "start"
    /\ \E key \in ListedKeys :
        /\ ks_origin' = Origin("listed", NoneStr, NoneStr, NoneStr, FALSE, "None")
        /\ ks_key' = key
        /\ ks_pc' = "built"
    /\ UNCHANGED <<ks_mock_env, ks_info, ks_conv>>
    /\ UNCHANGED <<atomicVars, fetchVars, mockVars, gateVars, migVars, jobVars, storageVars, lambdaVars>>

\* parse_s3_key(ks_key) is called
ParseKey ==
    /\ ks_pc = "built"
    /\ ks_info' = ParseS3Key(ks_key)
    /\ ks_pc' = "parsed"
    /\ UNCHANGED <<ks_mock_env, ks_origin, ks_key, ks_conv>>
    /\ UNCHANGED <<atomicVars, fetchVars, mockVars, gateVars, migVars, jobVars, storageVars, lambdaVars>>

\* convert_key_format(ks_key, target_version, **kwargs) is called
ConvertKey ==
    /\ ks_pc = "parsed"
    /\ \E target_version \in TargetVersions, kwargs \in KwArgSets :
        ks_conv' = [target |-> target_version, kwargs |-> kwargs,
                    result |-> ConvertKeyFormat(ks_key, target_version, kwargs, ks_mock_env)]
    /\ ks_pc' = "converted"
    /\ UNCHANGED <<ks_mock_env, ks_origin, ks_key, ks_info>>
    /\ UNCHANGED <<atomicVars, fetchVars, mockVars, gateVars, migVars, jobVars, storageVars, lambdaVars>>

\* ------------------------------------------------------------------------
\* scripts/migrate_s3_data.py: migrate_objects
\* ------------------------------------------------------------------------
\* the largest number of keys in a listing
MaxObjects == 2

\* the MOCK_MODE environment variable of the migration script's process
MigEnviron == "unset"

\* the keys found in the bucket, in the ascending order list_objects_v2
\* returns them in: a lambda key, a v2 daily key cut after the month, a v2
\* key, v1 keys under both v1 prefixes, one with a date without dashes, and
\* a key of no layout
BucketKeys ==
    << <<"daily", "/", "NVDA", "/", "2024", "-", "01", "-", "01", ".", "json">>,
       <<"prod", "/", "stock", "/", "raw", "/", "NVDA", "/", "daily", "/", "2024", "/", "01">>,
       <<"prod", "/", "stock", "/", "raw", "/", "NVDA", "/", "latest", ".", "json">>,
       <<"stock", "-", "data", "-", "mock", "/", "NVDA", "/", "latest", ".", "json">>,
       <<"stock", "-", "data", "/", "NVDA", "/", "daily", "/", "20240101", ".", "json">>,
       <<"stock", "-", "data", "/", "NVDA", "/", "latest", ".", "json">>,
       <<"stocks", "/", "NVDA", "/", "latest", ".", "json">> >>

\* the keys of BucketKeys at the positions chosen, in their order
RECURSIVE KeysAt(_, _)
KeysAt(chosen, n) ==
    IF n > Len(BucketKeys) THEN <<>>
    ELSE (IF n \in chosen THEN <<BucketKeys[n]>> ELSE <<>>) \o KeysAt(chosen, n + 1)

\* what list_s3_objects can return: up to MaxObjects keys, or [] when the
\* prefix matches nothing or listing fails with a ClientError
Listings ==
    {KeysAt(chosen, 1) : chosen \in {c \in SUBSET (1..Len(BucketKeys)) :
                                        Cardinality(c) <= MaxObjects}}

\* the arguments of migrate_objects
MigrateArgs ==
    [target_version : {"v2", "lambda"}, data_type : DataTypes, is_mock : IsMockArgs,
     delete_source : BOOLEAN, dry_run : BOOLEAN]

NoArgs ==
    [target_version |-> "none", data_type |-> NoneStr, is_mock |-> "None",
     delete_source |-> FALSE, dry_run |-> FALSE]

\* the statistics migrate_objects returns, or the exception it raises
Stats(total, success, failed, skipped, migrated_keys) ==
    [error |-> "none", total |-> total, success |-> success, failed |-> failed,
     skipped |-> skipped, migrated_keys |-> migrated_keys]

StatsRaises(e) ==
    [error |-> e, total |-> 0, success |-> 0, failed |-> 0, skipped |-> 0,
     migrated_keys |-> <<>>]

NoStats == StatsRaises("not returned")

\* a call of copy_s3_object or delete_s3_object and how it ended: "dry" (no
\* request made), "ok", "ClientError", or "other" for any other exception
S3Call(op, source_key, target_key, outcome) ==
    [op |-> op, source_key |-> source_key, target_key |-> target_key, outcome |-> outcome]

\* mutant: a dry run makes the request all the same
S3Outcomes_DryIgnored(dry_run) == {"ok", "ClientError", "other"}

\* the ways copy_s3_object and delete_s3_object can end: a dry run returns
\* True before any request; a request succeeds, raises ClientError (caught,
\* False is returned) or raises something else (not caught there)
S3Outcomes(dry_run) == IF dry_run THEN {"dry"} ELSE {"ok", "ClientError", "other"}

\* mutant: only keys of no layout are skipped
IsSkipped_UnknownOnly(key_info, target_version) == key_info.version = "unknown"

\* the two tests of the loop of migrate_objects that end in "continue"
IsSkipped(key_info, target_version) ==
    key_info.version = "unknown" \/ key_info.version = target_version

\* what the loop of migrate_objects and then migrate_object do with
\* source_key before any request: parse_s3_key raises in the loop, the key
\* is skipped, its conversion raises, or it is to be copied to a target key
MigrateDecision(source_key, args) ==
    LET key_info == ParseS3Key(source_key)
    IN IF key_info.error # "none"
       THEN [kind |-> "raise", error |-> key_info.error, target_key |-> NoneStr]
       ELSE IF IsSkipped(key_info, args.target_version)
       THEN [kind |-> "skip", error |-> "none", target_key |-> NoneStr]
       ELSE LET converted ==
                    ConvertKeyFormat(source_key, args.target_version,
                                     [data_type |-> args.data_type, is_mock |-> args.is_mock],
                                     MigEnviron)
            IN IF converted.error # "none"
               THEN [kind |-> "fail", error |-> converted.error, target_key |-> NoneStr]
               ELSE [kind |-> "copy", error |-> "none", target_key |-> converted.key]

\* mutant: a skipped key is not counted, a failed conversion is
SkippedIncrement_Failures(kind) == IF kind = "fail" THEN 1 ELSE 0

\* skipped_count += 1 before each "continue" of the loop
SkippedIncrement(kind) == IF kind = "skip" THEN 1 ELSE 0

\* s3_client.copy_object: the target holds what the source holds
CopyInBucket(bucket, source_key, target_key) ==
    [k \in DOMAIN bucket \cup {target_key} |->
        IF k = target_key THEN bucket[source_key] ELSE bucket[k]]

\* s3_client.delete_object
DeleteInBucket(bucket, key) == [k \in DOMAIN bucket \ {key} |-> bucket[k]]

\* the loop of migrate_objects takes the next key: it is skipped, counted
\* failed when its conversion raises, or handed on to copy_s3_object; an
\* exception of parse_s3_key leaves migrate_objects
VisitObject ==
    /\ mg_pc = "visit"
    /\ mg_i <= Len(mg_objects)
    /\ \E d \in {MigrateDecision(mg_objects[mg_i], mg_args)} :
       LET source_key == mg_objects[mg_i]
       IN /\ mg_pc' = IF d.kind = "raise" THEN "raised"
                      ELSE IF d.kind = "copy" THEN "copy" ELSE "visit"
          /\ mg_result' = IF d.kind = "raise" THEN StatsRaises(d.error) ELSE mg_result
          /\ mg_target_key' = d.target_key
          /\ mg_i' = IF d.kind \in {"skip", "fail"} THEN mg_i + 1 ELSE mg_i
          /\ mg_skipped_count' = mg_skipped_count + SkippedIncrement(d.kind)
          /\ mg_failed_count' = mg_failed_count + (IF d.kind = "fail" THEN 1 ELSE 0)
          /\ mg_processed' =
                IF d.kind = "skip" THEN Append(mg_processed, <<source_key, "skipped">>)
                ELSE IF d.kind = "fail" THEN Append(mg_processed, <<source_key, "failed">>)
                ELSE mg_processed
    /\ UNCHANGED <<mg_objects, mg_args, mg_bucket, mg_calls, mg_success_count,
                   mg_migrated_keys>>
    /\ UNCHANGED <<atomicVars, fetchVars, mockVars, gateVars, keyVars, jobVars, storageVars, lambdaVars>>

\* copy_s3_object(source_key, target_key, dry_run) is called by
\* migrate_object; when it returns True and the source is not to be deleted
\* the object is counted a success, when it fails it is counted failed
CopyObject ==
    /\ mg_pc = "copy"
    /\ \E outcome \in S3Outcomes(mg_args.dry_run) :
        LET source_key == mg_objects[mg_i]
            copied == outcome \in {"dry", "ok"}
            finished == ~copied \/ ~mg_args.delete_source
        IN /\ mg_calls' = Append(mg_calls, S3Call("copy", source_key, mg_target_key, outcome))
           /\ mg_bucket' = IF outcome = "ok"
                           THEN CopyInBucket(mg_bucket, source_key, mg_target_key)
                           ELSE mg_bucket
           /\ mg_pc' = IF finished THEN "visit" ELSE "delete"
           /\ mg_i' = IF finished THEN mg_i + 1 ELSE mg_i
           /\ mg_success_count' = mg_success_count + (IF copied /\ finished THEN 1 ELSE 0)
           /\ mg_failed_count' = mg_failed_count + (IF ~copied THEN 1 ELSE 0)
           /\ mg_migrated_keys' =
                 IF copied /\ finished /\ mg_target_key # source_key
                 THEN Append(mg_migrated_keys, <<source_key, mg_target_key>>)
                 ELSE mg_migrated_keys
           /\ mg_processed' =
                 IF ~copied THEN Append(mg_processed, <<source_key, "failed">>)
                 ELSE IF finished THEN Append(mg_processed, <<source_key, "success">>)
                 ELSE mg_processed
    /\ UNCHANGED <<mg_objects, mg_args, mg_target_key, mg_skipped_count, mg_result>>
    /\ UNCHANGED <<atomicVars, fetchVars, mockVars, gateVars, keyVars, jobVars, storageVars, lambdaVars>>

\* delete_s3_object(source_key, dry_run) is called by migrate_object after
\* the copy: the object is a success whether or not the delete returns
\* True; an exception other than ClientError is caught by migrate_object
\* and the object is counted failed
DeleteObject ==
    /\ mg_pc = "delete"
    /\ \E outcome \in S3Outcomes(mg_args.dry_run) :
        LET source_key == mg_objects[mg_i]
            success == outcome # "other"
        IN /\ mg_calls' = Append(mg_calls, S3Call("delete", source_key, NoneStr, outcome))
           /\ mg_bucket' = IF outcome = "ok" THEN DeleteInBucket(mg_bucket, source_key)
                           ELSE mg_bucket
           /\ mg_success_count' = mg_success_count + (IF success THEN 1 ELSE 0)
           /\ mg_failed_count' = mg_failed_count + (IF success THEN 0 ELSE 1)
           /\ mg_migrated_keys' =
                 IF success /\ mg_target_key # source_key
                 THEN Append(mg_migrated_keys, <<source_key, mg_target_key>>)
                 ELSE mg_migrated_keys
           /\ mg_processed' =
                 Append(mg_processed,
                        <<source_key, IF success THEN "success" ELSE "failed">>)
    /\ mg_pc' = "visit"
    /\ mg_i' = mg_i + 1
    /\ UNCHANGED <<mg_objects, mg_args, mg_target_key, mg_skipped_count, mg_result>>
    /\ UNCHANGED <<atomicVars, fetchVars, mockVars, gateVars, keyVars, jobVars, storageVars, lambdaVars>>

\* the loop is over, or the listing was empty: the statistics are returned
ReturnStats ==
    /\ mg_pc = "visit"
    /\ mg_i > Len(mg_objects)
    /\ mg_pc' = "returned"
    /\ mg_result' = Stats(Len(mg_objects), mg_success_count, mg_failed_count,
                          mg_skipped_count, mg_migrated_keys)
    /\ UNCHANGED <<mg_objects, mg_args, mg_i, mg_target_key, mg_bucket, mg_calls,
                   mg_processed, mg_success_count, mg_failed_count, mg_skipped_count,
                   mg_migrated_keys>>
    /\ UNCHANGED <<atomicVars, fetchVars, mockVars, gateVars, keyVars, jobVars, storageVars, lambdaVars>>

\* ------------------------------------------------------------------------
\* fetch_daily.py: process_symbol and main; lambda/fetch_daily_lambda.py
\* ------------------------------------------------------------------------
\* the text of the days of a month, as strftime('%d') writes them
DayTexts == <<"01", "02", "03", "04", "05", "06", "07", "08", "09">>

\* timestamp.strftime('%Y-%m-%d'), the days of the frames being those of
\* January 2024
Strftime(day) == <<"2024", "-", "01", "-", DayTexts[day]>>

\* mutant: the range starts at the first row of the frame
Metadata_StartAtHead(symbol, latest_date, df) ==
    [symbol |-> symbol,
     latest_date |-> latest_date,
     data_points |-> Len(df.rows),
     date_range |-> [start |-> Strftime(df.rows[1].date), end |-> latest_date]]

\* the metadata dict of process_symbol, without its time of writing:
\* len(df), df.index[-1].strftime('%Y-%m-%d') and latest_date
Metadata(symbol, latest_date, df) ==
    [symbol |-> symbol,
     latest_date |-> latest_date,
     data_points |-> Len(df.rows),
     date_range |-> [start |-> Strftime(df.rows[Len(df.rows)].date), end |-> latest_date]]

\* process_symbol, from the frames to the documents it saves: latest_date
\* is api_date, the date of the first row of latest_df; the daily key is
\* built for latest_date; the metadata is built
BuildDocuments ==
    /\ qg_pc = "extracted"
    /\ LET api_date == Strftime(qg_latest.rows[1].date)
           latest_date == api_date
       IN qg_documents' =
             [raw_daily_key |-> GetS3KeyV2(FALSE, <<"NVDA">>, <<"raw">>, latest_date, FALSE),
              metadata |-> Metadata(<<"NVDA">>, latest_date, qg_result.df)]
    /\ qg_pc' = "built"
    /\ UNCHANGED <<qg_stock_data, qg_result, qg_latest>>
    /\ UNCHANGED <<atomicVars, fetchVars, mockVars, keyVars, migVars, jobVars, storageVars, lambdaVars>>

\* the largest number of entries of STOCK_SYMBOLS
MaxSymbols == 2

\* the symbols STOCK_SYMBOLS can name
JobSymbols == {"NVDA", "AAPL"}

\* config.stock_symbols: the entries of STOCK_SYMBOLS in their order, at
\* least one, the same symbol possibly twice
SymbolLists ==
    UNION {[1..n -> JobSymbols] : n \in 1..MaxSymbols}

\* the keys process_symbol saves when config.save_to_s3 is set, in the
\* order of its atomic_json_update calls
SaveOrder ==
    << <<"raw", "latest">>, <<"raw", "daily">>, <<"raw", "full">>, <<"raw", "metadata">>,
       <<"processed", "latest">>, <<"processed", "daily">>, <<"processed", "full">>,
       <<"processed", "metadata">> >>

\* mutant: a save that fails ends process_symbol whichever key it is for
SaveFailureReturns_Any(key, saved) == ~saved

\* "if not atomic_s3.atomic_json_update(...)" is followed by "return False"
\* for the raw latest key only; for every other key by a warning
SaveFailureReturns(key, saved) == key = <<"raw", "latest">> /\ ~saved

\* what process_symbol does before it saves: the API gave no data or the
\* data failed validation (False is returned), an exception is raised, or
\* the documents to save are ready
BeforeSave == {"no data", "invalid", "raise", "ready"}

\* mutant: the result of validate_and_transform is not looked at
ReturnsBeforeSave_FetchOnly(before) == before \in {"no data", "raise"}

\* "if not stock_data: return False" and "if not is_valid or df is None:
\* return False" stand before every save, as does an exception raised
\* while the documents are built
ReturnsBeforeSave(before) == before # "ready"

\* an entry of jb_log: for the symbol at position pos, the fetch or the
\* validation with its result, or a write to a store with its key
Event(pos, ev, detail) == [pos |-> pos, ev |-> ev, detail |-> detail]

\* the fetch and the validation of process_symbol as far as they ran
FetchEvents(pos, before) ==
    IF before = "no data" THEN <<Event(pos, "fetch", "no data")>>
    ELSE IF before = "invalid"
    THEN <<Event(pos, "fetch", "data"), Event(pos, "validate", "rejected")>>
    ELSE <<Event(pos, "fetch", "data"), Event(pos, "validate", "accepted")>>

\* the put_object calls of the local storage branch, in their order
LocalOrder == <<"daily", "latest", "full", "metadata">>

\* the writes of the branch taken once the documents are ready, when it is
\* not the S3 branch
LocalEvents(pos, storage) ==
    IF storage = "local"
    THEN [n \in 1..Len(LocalOrder) |-> Event(pos, "local write", LocalOrder[n])]
    ELSE <<>>

\* once the documents are ready: without save_to_s3, every put_object of
\* local storage ends in a log line and True is returned with the date;
\* with neither S3 nor local storage False is returned
WithoutS3(storage) == IF storage = "local" THEN "ok" ELSE "fail"

\* results[symbol] as the loop of main sets it
SymbolResult(outcome) ==
    IF outcome = "ok" THEN "SUCCESS" ELSE IF outcome = "fail" THEN "FAILURE" ELSE "ERROR"

\* mutant: a symbol that raised is not counted
FailureIncrement_ErrorUncounted(outcome) == IF outcome = "fail" THEN 1 ELSE 0

\* failure_count += 1, in the else branch and in the except branch
FailureIncrement(outcome) == IF outcome = "ok" THEN 0 ELSE 1

\* mutant: the exit codes are exchanged
ExitCode_Exchanged(failure_count) == IF failure_count = 0 THEN 1 ELSE 0

\* return 0 if failure_count == 0 else 1
ExitCode(failure_count) == IF failure_count = 0 THEN 0 ELSE 1

\* 'statusCode': 200 if exit_code == 0 else 500, and 500 in the except
\* branch of the handler
StatusCode(main_raised, exit_code) ==
    IF main_raised THEN 500 ELSE IF exit_code = 0 THEN 200 ELSE 500

\* main reads the configuration and sets up its components
MainSetup ==
    /\ jb_pc = "start"
    /\ jb_pc' = "loop"
    /\ UNCHANGED <<jb_symbols, jb_storage, jb_i, jb_saves, jb_outcomes, jb_results,
                   jb_success_count, jb_failure_count, jb_exit_code, jb_status_code,
                   jb_log>>
    /\ UNCHANGED <<atomicVars, fetchVars, mockVars, gateVars, keyVars, migVars, storageVars, lambdaVars>>

\* setup_components caught an exception and returned None for the logger:
\* main raises AttributeError at its next logger call, before the loop
MainSetupFails ==
    /\ jb_pc = "start"
    /\ jb_pc' = "raised"
    /\ UNCHANGED <<jb_symbols, jb_storage, jb_i, jb_saves, jb_outcomes, jb_results,
                   jb_success_count, jb_failure_count, jb_exit_code, jb_status_code,
                   jb_log>>
    /\ UNCHANGED <<atomicVars, fetchVars, mockVars, gateVars, keyVars, migVars, storageVars, lambdaVars>>

\* the loop of main calls process_symbol for the next symbol, which
\* fetches, validates and builds its documents; unless it goes on to save
\* to S3 the loop records what it returned or raised
ProcessSymbol ==
    /\ jb_pc = "loop"
    /\ jb_i <= Len(jb_symbols)
    /\ \E before \in BeforeSave :
        LET symbol == jb_symbols[jb_i]
            stores == ~ReturnsBeforeSave(before)
            saving == stores /\ jb_storage = "s3"
            outcome == IF before = "raise" THEN "raise"
                       ELSE IF stores THEN WithoutS3(jb_storage)
                       ELSE "fail"
        IN /\ jb_saves' = <<>>
           /\ jb_log' = jb_log \o FetchEvents(jb_i, before) \o
                            (IF stores THEN LocalEvents(jb_i, jb_storage) ELSE <<>>)
           /\ jb_pc' = IF saving THEN "save" ELSE "loop"
           /\ jb_i' = IF saving THEN jb_i ELSE jb_i + 1
           /\ jb_outcomes' = IF saving THEN jb_outcomes ELSE Append(jb_outcomes, outcome)
           /\ jb_results' = IF saving THEN jb_results
                            ELSE [jb_results EXCEPT ![symbol] = SymbolResult(outcome)]
           /\ jb_success_count' =
                 jb_success_count + (IF ~saving /\ outcome = "ok" THEN 1 ELSE 0)
           /\ jb_failure_count' =
                 jb_failure_count + (IF saving THEN 0 ELSE FailureIncrement(outcome))
    /\ UNCHANGED <<jb_symbols, jb_storage, jb_exit_code, jb_status_code>>
    /\ UNCHANGED <<atomicVars, fetchVars, mockVars, gateVars, keyVars, migVars, storageVars, lambdaVars>>

\* process_symbol calls atomic_s3.atomic_json_update for its next key,
\* which returns True or False; after the last key, or after a failure for
\* the raw latest key, it returns and the loop of main records the result
SaveKey ==
    /\ jb_pc = "save"
    /\ \E saved \in BOOLEAN :
        LET symbol == jb_symbols[jb_i]
            key == SaveOrder[Len(jb_saves) + 1]
            failed == SaveFailureReturns(key, saved)
            returns == failed \/ Len(jb_saves) + 1 = Len(SaveOrder)
            outcome == IF failed THEN "fail" ELSE "ok"
        IN /\ jb_saves' = Append(jb_saves, [key |-> key, saved |-> saved])
           /\ jb_log' = Append(jb_log, Event(jb_i, "s3 write", key))
           /\ jb_pc' = IF returns THEN "loop" ELSE "save"
           /\ jb_i' = IF returns THEN jb_i + 1 ELSE jb_i
           /\ jb_outcomes' = IF returns THEN Append(jb_outcomes, outcome) ELSE jb_outcomes
           /\ jb_results' = IF returns
                            THEN [jb_results EXCEPT ![symbol] = SymbolResult(outcome)]
                            ELSE jb_results
           /\ jb_success_count' =
                 jb_success_count + (IF returns /\ outcome = "ok" THEN 1 ELSE 0)
           /\ jb_failure_count' =
                 jb_failure_count + (IF returns THEN FailureIncrement(outcome) ELSE 0)
    /\ UNCHANGED <<jb_symbols, jb_storage, jb_exit_code, jb_status_code>>
    /\ UNCHANGED <<atomicVars, fetchVars, mockVars, gateVars, keyVars, migVars, storageVars, lambdaVars>>

\* the loop is over: main logs the summary and returns its exit code
MainReturn ==
    /\ jb_pc = "loop"
    /\ jb_i > Len(jb_symbols)
    /\ jb_pc' = "returned"
    /\ jb_exit_code' = ExitCode(jb_failure_count)
    /\ UNCHANGED <<jb_symbols, jb_storage, jb_i, jb_saves, jb_outcomes, jb_results,
                   jb_success_count, jb_failure_count, jb_status_code, jb_log>>
    /\ UNCHANGED <<atomicVars, fetchVars, mockVars, gateVars, keyVars, migVars, storageVars, lambdaVars>>

\* the Lambda handler, which called main, builds its response
Handler ==
    /\ jb_pc \in {"returned", "raised"}
    /\ jb_status_code' = StatusCode(jb_pc = "raised", jb_exit_code)
    /\ jb_pc' = IF jb_pc = "raised" THEN "responded after raise" ELSE "responded"
    /\ UNCHANGED <<jb_symbols, jb_storage, jb_i, jb_saves, jb_outcomes, jb_results,
                   jb_success_count, jb_failure_count, jb_exit_code, jb_log>>
    /\ UNCHANGED <<atomicVars, fetchVars, mockVars, gateVars, keyVars, migVars, storageVars, lambdaVars>>

\* ------------------------------------------------------------------------
\* test_s3_operations.py: save_json, load_json, list_objects, object_exists
\* ------------------------------------------------------------------------
\* loaded_data before load_json is called
NotLoaded == << <<"not called", "not called">> >>

\* S3Storage.list_objects(prefix), every key of the bucket having the
\* prefix: [] in mock mode and when the request fails, else the keys found
ListObjects(st, ok) ==
    IF s3_mock_mode \/ ~ok THEN {}
    ELSE {k \in AllKeys : st[k] # NotFound}

\* S3Storage.save_json(test_data, test_key): in mock mode a log line and
\* True; otherwise one put of the serialized data, True iff it succeeded.
\* The test stops when the result is False
SaveJson ==
    /\ ss_pc = "save"
    /\ \E data \in DataSet \cup {V0}, ok \in {b \in BOOLEAN : s3_mock_mode => b} :
        /\ ss_data' = data
        /\ store' = IF s3_mock_mode \/ ~ok THEN store
                    ELSE [store EXCEPT ![K] = JsonDumps(data)]
        /\ ss_save_result' = IF ok THEN "True" ELSE "False"
        /\ ss_pc' = IF ok THEN "load" ELSE "done"
    /\ UNCHANGED <<ss_loaded, ss_listed, ss_exists>>
    /\ UNCHANGED <<mock_mode, s3_mock_mode, call, next_uuid, history, oplog, last_copy>>
    /\ UNCHANGED <<fetchVars, mockVars, gateVars, keyVars, migVars, jobVars, lambdaVars>>

\* S3Storage.load_json(test_key); a failed get_object is answered None and
\* the test stops
LoadJsonCall ==
    /\ ss_pc = "load"
    /\ \E ok \in {b \in BOOLEAN : s3_mock_mode => b} :
        /\ ss_loaded' = IF ok THEN LoadJson(store, K) ELSE NoneValue
        /\ ss_pc' = IF ok /\ LoadJson(store, K) # NoneValue THEN "list" ELSE "done"
    /\ UNCHANGED <<ss_data, ss_save_result, ss_listed, ss_exists>>
    /\ UNCHANGED atomicVars
    /\ UNCHANGED <<fetchVars, mockVars, gateVars, keyVars, migVars, jobVars, lambdaVars>>

\* S3Storage.list_objects("test-data/")
ListObjectsCall ==
    /\ ss_pc = "list"
    /\ \E ok \in {b \in BOOLEAN : s3_mock_mode => b} :
        ss_listed' = ListObjects(store, ok)
    /\ ss_pc' = "exists"
    /\ UNCHANGED <<ss_data, ss_save_result, ss_loaded, ss_exists>>
    /\ UNCHANGED atomicVars
    /\ UNCHANGED <<fetchVars, mockVars, gateVars, keyVars, migVars, jobVars, lambdaVars>>

\* S3Storage.object_exists(test_key): False in mock mode, else head_object
ObjectExistsCall ==
    /\ ss_pc = "exists"
    /\ \E outcome \in {o \in {"ok", "client_error", "error"} : s3_mock_mode => o = "ok"} :
        ss_exists' = IF s3_mock_mode THEN "False"
                     ELSE ObjectExists(store[K] # NotFound, outcome)
    /\ ss_pc' = "done"
    /\ UNCHANGED <<ss_data, ss_save_result, ss_loaded, ss_listed>>
    /\ UNCHANGED atomicVars
    /\ UNCHANGED <<fetchVars, mockVars, gateVars, keyVars, migVars, jobVars, lambdaVars>>

\* ------------------------------------------------------------------------
\* lambda/function/lambda_function.py: lambda_handler
\* ------------------------------------------------------------------------
\* results before the loop: no symbol has an entry
NoResults == [s \in JobSymbols |-> "none"]

\* the dict lambda_handler returns: statusCode, and of the body 'success'
\* and, when the body has them, 'results' and the two counts; here before
\* the handler has returned
NoResponse ==
    [statusCode |-> 0, success |-> FALSE, has_results |-> FALSE, results |-> NoResults,
     success_count |-> 0, failure_count |-> 0]

\* how one iteration of the loop can end, by the error_type it records: in
\* the fetch a status other than 200, "Error Message" in the body, no
\* "Time Series (Daily)" in the body, any exception; in put_object a
\* ClientError, any other exception; or the object is written
IterationEnds ==
    {"API Request Error", "API Error", "Unexpected Response Format", "Data Fetch Error",
     "S3 Storage Error", "Unexpected S3 Error", "success"}

\* results[symbol] = 'success' after put_object, 'error' in every other
\* branch
ResultFor(end) == IF end = "success" THEN "success" ELSE "error"

\* sum(1 for result in results.values() if result == 'success'), and the
\* same for result != 'success'
CountOf(results, wanted) ==
    Cardinality({s \in JobSymbols : results[s] # "none" /\ (results[s] = "success") = wanted})

\* mock mode: the handler returns at once, without any request, 'statusCode':
\* 200 and 'success': True
HandlerMock ==
    /\ lh_pc = "start"
    /\ lh_mock_mode
    /\ lh_response' = [NoResponse EXCEPT !.statusCode = 200, !.success = TRUE]
    /\ lh_pc' = "responded"
    /\ UNCHANGED <<lh_mock_mode, lh_symbols, lh_i, lh_results, lh_ends>>
    /\ UNCHANGED <<atomicVars, fetchVars, mockVars, gateVars, keyVars, migVars, jobVars,
                   storageVars>>

\* boto3 is imported, the client is made and the list of symbols is split
HandlerStart ==
    /\ lh_pc = "start"
    /\ ~lh_mock_mode
    /\ lh_pc' = "loop"
    /\ UNCHANGED <<lh_mock_mode, lh_symbols, lh_i, lh_results, lh_ends, lh_response>>
    /\ UNCHANGED <<atomicVars, fetchVars, mockVars, gateVars, keyVars, migVars, jobVars,
                   storageVars>>

\* the import of boto3 or boto3.client raises: the exception reaches
\* "except Exception" of the handler, which returns 'statusCode': 500 and
\* 'success': False
HandlerFails ==
    /\ lh_pc = "start"
    /\ ~lh_mock_mode
    /\ lh_response' = [NoResponse EXCEPT !.statusCode = 500, !.success = FALSE]
    /\ lh_pc' = "responded"
    /\ UNCHANGED <<lh_mock_mode, lh_symbols, lh_i, lh_results, lh_ends>>
    /\ UNCHANGED <<atomicVars, fetchVars, mockVars, gateVars, keyVars, migVars, jobVars,
                   storageVars>>

\* one iteration of the loop: the request for the symbol, which ends in an
\* error ("continue") or in the data of the latest day, then put_object;
\* every branch sets results[symbol]
HandleSymbol ==
    /\ lh_pc = "loop"
    /\ lh_i <= Len(lh_symbols)
    /\ \E end \in IterationEnds :
        /\ lh_results' = [lh_results EXCEPT ![lh_symbols[lh_i]] = ResultFor(end)]
        /\ lh_ends' = Append(lh_ends, end)
    /\ lh_i' = lh_i + 1
    /\ UNCHANGED <<lh_pc, lh_mock_mode, lh_symbols, lh_response>>
    /\ UNCHANGED <<atomicVars, fetchVars, mockVars, gateVars, keyVars, migVars, jobVars,
                   storageVars>>

\* after the loop: the counts, the Slack notification (whose exceptions
\* are caught and logged) and the return: 'statusCode': 200 and 'success':
\* True with the results and the counts
HandlerReturn ==
    /\ lh_pc = "loop"
    /\ lh_i > Len(lh_symbols)
    /\ lh_response' =
           [statusCode |-> 200, success |-> TRUE, has_results |-> TRUE,
            results |-> lh_results, success_count |-> CountOf(lh_results, TRUE),
            failure_count |-> CountOf(lh_results, FALSE)]
    /\ lh_pc' = "responded"
    /\ UNCHANGED <<lh_mock_mode, lh_symbols, lh_i, lh_results, lh_ends>>
    /\ UNCHANGED <<atomicVars, fetchVars, mockVars, gateVars, keyVars, migVars, jobVars,
                   storageVars>>

\* ------------------------------------------------------------------------
\* Specifications
\* ------------------------------------------------------------------------
\* AtomicS3 over a bucket where K is absent or holds an earlier payload;
\* S3Storage and AtomicS3 each read MOCK_MODE when constructed
InitAtomic ==
    /\ \E b \in {NotFound, JsonDumps(V0)} :
          store = [k \in AllKeys |-> IF k = K THEN b ELSE NotFound]
    /\ mock_mode \in BOOLEAN
    /\ s3_mock_mode \in BOOLEAN
    /\ call = [p \in Callers |-> IdleCall]
    /\ next_uuid = 1
    /\ history = <<>>
    /\ oplog = {}
    /\ last_copy = 0
    /\ fc_pc = "loop"
    /\ fc_max_retries = DefaultMaxRetries
    /\ retry_count = 0
    /\ fc_log = <<>>
    /\ fc_sleeps = <<>>
    /\ fc_result = "pending"
    /\ mk_pc = "gen"
    /\ mk_outputsize = "compact"
    /\ mk_i = 0
    /\ mk_base = StartPrice * PriceScale
    /\ mk_last_date = Today + 1
    /\ mk_count = 0
    /\ mk_distinct = TRUE
    /\ mk_zero_volume = FALSE
    /\ mk_negative = FALSE
    /\ mk_inconsistent = FALSE
    /\ qg_pc = "raw"
    /\ qg_stock_data = <<>>
    /\ qg_result = NoResult
    /\ qg_latest = NoneDF
    /\ qg_documents = <<>>
    /\ ks_pc = "start"
    /\ ks_mock_env = "false"
    /\ ks_origin = NoOrigin
    /\ ks_key = <<>>
    /\ ks_info = NoInfo
    /\ ks_conv = NoConv
    /\ mg_pc = "idle"
    /\ mg_objects = <<>>
    /\ mg_args = NoArgs
    /\ mg_i = 1
    /\ mg_target_key = NoneStr
    /\ mg_bucket = <<>>
    /\ mg_calls = <<>>
    /\ mg_processed = <<>>
    /\ mg_success_count = 0
    /\ mg_failed_count = 0
    /\ mg_skipped_count = 0
    /\ mg_migrated_keys = <<>>
    /\ mg_result = NoStats
    /\ jb_pc = "idle"
    /\ jb_symbols = <<>>
    /\ jb_storage = "none"
    /\ jb_i = 1
    /\ jb_saves = <<>>
    /\ jb_outcomes = <<>>
    /\ jb_results = [s \in JobSymbols |-> "none"]
    /\ jb_success_count = 0
    /\ jb_failure_count = 0
    /\ jb_exit_code = -1
    /\ jb_status_code = 0
    /\ jb_log = <<>>
    /\ ss_pc = "idle"
    /\ ss_data = <<>>
    /\ ss_save_result = "none"
    /\ ss_loaded = NotLoaded
    /\ ss_listed = {}
    /\ ss_exists = "none"
    /\ lh_pc = "idle"
    /\ lh_mock_mode = FALSE
    /\ lh_symbols = <<>>
    /\ lh_i = 1
    /\ lh_results = [s \in JobSymbols |-> "none"]
    /\ lh_ends = <<>>
    /\ lh_response = NoResponse

NextAtomic ==
    \E p \in Callers :
        \/ Begin(p)
        \/ Update(p)
        \/ Copy(p)
        \/ Delete(p)
        \/ CleanupExists(p)
        \/ CleanupDelete(p)

SpecAtomic == InitAtomic /\ [][NextAtomic]_vars

\* _make_api_request entered with max_retries up to its default
InitFetch ==
    /\ fc_pc = "loop"
    /\ fc_max_retries \in 0..DefaultMaxRetries
    /\ retry_count = 0
    /\ fc_log = <<>>
    /\ fc_sleeps = <<>>
    /\ fc_result = "pending"
    /\ store = [k \in AllKeys |-> NotFound]
    /\ mock_mode = FALSE
    /\ s3_mock_mode = FALSE
    /\ call = [p \in Callers |-> IdleCall]
    /\ next_uuid = 1
    /\ history = <<>>
    /\ oplog = {}
    /\ last_copy = 0
    /\ mk_pc = "gen"
    /\ mk_outputsize = "compact"
    /\ mk_i = 0
    /\ mk_base = StartPrice * PriceScale
    /\ mk_last_date = Today + 1
    /\ mk_count = 0
    /\ mk_distinct = TRUE
    /\ mk_zero_volume = FALSE
    /\ mk_negative = FALSE
    /\ mk_inconsistent = FALSE
    /\ qg_pc = "raw"
    /\ qg_stock_data = <<>>
    /\ qg_result = NoResult
    /\ qg_latest = NoneDF
    /\ qg_documents = <<>>
    /\ ks_pc = "start"
    /\ ks_mock_env = "false"
    /\ ks_origin = NoOrigin
    /\ ks_key = <<>>
    /\ ks_info = NoInfo
    /\ ks_conv = NoConv
    /\ mg_pc = "idle"
    /\ mg_objects = <<>>
    /\ mg_args = NoArgs
    /\ mg_i = 1
    /\ mg_target_key = NoneStr
    /\ mg_bucket = <<>>
    /\ mg_calls = <<>>
    /\ mg_processed = <<>>
    /\ mg_success_count = 0
    /\ mg_failed_count = 0
    /\ mg_skipped_count = 0
    /\ mg_migrated_keys = <<>>
    /\ mg_result = NoStats
    /\ jb_pc = "idle"
    /\ jb_symbols = <<>>
    /\ jb_storage = "none"
    /\ jb_i = 1
    /\ jb_saves = <<>>
    /\ jb_outcomes = <<>>
    /\ jb_results = [s \in JobSymbols |-> "none"]
    /\ jb_success_count = 0
    /\ jb_failure_count = 0
    /\ jb_exit_code = -1
    /\ jb_status_code = 0
    /\ jb_log = <<>>
    /\ ss_pc = "idle"
    /\ ss_data = <<>>
    /\ ss_save_result = "none"
    /\ ss_loaded = NotLoaded
    /\ ss_listed = {}
    /\ ss_exists = "none"
    /\ lh_pc = "idle"
    /\ lh_mock_mode = FALSE
    /\ lh_symbols = <<>>
    /\ lh_i = 1
    /\ lh_results = [s \in JobSymbols |-> "none"]
    /\ lh_ends = <<>>
    /\ lh_response = NoResponse

NextFetch == Request

SpecFetch == InitFetch /\ [][NextFetch]_vars

\* _get_mock_data entered with outputsize compact or full
InitMock ==
    /\ mk_pc = "gen"
    /\ mk_outputsize \in {"compact", "full"}
    /\ mk_i = 0
    /\ mk_base = StartPrice * PriceScale
    /\ mk_last_date = Today + 1
    /\ mk_count = 0
    /\ mk_distinct = TRUE
    /\ mk_zero_volume = FALSE
    /\ mk_negative = FALSE
    /\ mk_inconsistent = FALSE
    /\ store = [k \in AllKeys |-> NotFound]
    /\ mock_mode = FALSE
    /\ s3_mock_mode = FALSE
    /\ call = [p \in Callers |-> IdleCall]
    /\ next_uuid = 1
    /\ history = <<>>
    /\ oplog = {}
    /\ last_copy = 0
    /\ fc_pc = "loop"
    /\ fc_max_retries = DefaultMaxRetries
    /\ retry_count = 0
    /\ fc_log = <<>>
    /\ fc_sleeps = <<>>
    /\ fc_result = "pending"
    /\ qg_pc = "raw"
    /\ qg_stock_data = <<>>
    /\ qg_result = NoResult
    /\ qg_latest = NoneDF
    /\ qg_documents = <<>>
    /\ ks_pc = "start"
    /\ ks_mock_env = "false"
    /\ ks_origin = NoOrigin
    /\ ks_key = <<>>
    /\ ks_info = NoInfo
    /\ ks_conv = NoConv
    /\ mg_pc = "idle"
    /\ mg_objects = <<>>
    /\ mg_args = NoArgs
    /\ mg_i = 1
    /\ mg_target_key = NoneStr
    /\ mg_bucket = <<>>
    /\ mg_calls = <<>>
    /\ mg_processed = <<>>
    /\ mg_success_count = 0
    /\ mg_failed_count = 0
    /\ mg_skipped_count = 0
    /\ mg_migrated_keys = <<>>
    /\ mg_result = NoStats
    /\ jb_pc = "idle"
    /\ jb_symbols = <<>>
    /\ jb_storage = "none"
    /\ jb_i = 1
    /\ jb_saves = <<>>
    /\ jb_outcomes = <<>>
    /\ jb_results = [s \in JobSymbols |-> "none"]
    /\ jb_success_count = 0
    /\ jb_failure_count = 0
    /\ jb_exit_code = -1
    /\ jb_status_code = 0
    /\ jb_log = <<>>
    /\ ss_pc = "idle"
    /\ ss_data = <<>>
    /\ ss_save_result = "none"
    /\ ss_loaded = NotLoaded
    /\ ss_listed = {}
    /\ ss_exists = "none"
    /\ lh_pc = "idle"
    /\ lh_mock_mode = FALSE
    /\ lh_symbols = <<>>
    /\ lh_i = 1
    /\ lh_results = [s \in JobSymbols |-> "none"]
    /\ lh_ends = <<>>
    /\ lh_response = NoResponse

NextMock == MockDay

SpecMock == InitMock /\ [][NextMock]_vars

\* validate_and_transform handed a document of the feed
InitGate ==
    /\ qg_pc = "raw"
    /\ qg_stock_data \in StockDocuments
    /\ qg_result = NoResult
    /\ qg_latest = NoneDF
    /\ qg_documents = <<>>
    /\ store = [k \in AllKeys |-> NotFound]
    /\ mock_mode = FALSE
    /\ s3_mock_mode = FALSE
    /\ call = [p \in Callers |-> IdleCall]
    /\ next_uuid = 1
    /\ history = <<>>
    /\ oplog = {}
    /\ last_copy = 0
    /\ fc_pc = "loop"
    /\ fc_max_retries = DefaultMaxRetries
    /\ retry_count = 0
    /\ fc_log = <<>>
    /\ fc_sleeps = <<>>
    /\ fc_result = "pending"
    /\ mk_pc = "gen"
    /\ mk_outputsize = "compact"
    /\ mk_i = 0
    /\ mk_base = StartPrice * PriceScale
    /\ mk_last_date = Today + 1
    /\ mk_count = 0
    /\ mk_distinct = TRUE
    /\ mk_zero_volume = FALSE
    /\ mk_negative = FALSE
    /\ mk_inconsistent = FALSE
    /\ ks_pc = "start"
    /\ ks_mock_env = "false"
    /\ ks_origin = NoOrigin
    /\ ks_key = <<>>
    /\ ks_info = NoInfo
    /\ ks_conv = NoConv
    /\ mg_pc = "idle"
    /\ mg_objects = <<>>
    /\ mg_args = NoArgs
    /\ mg_i = 1
    /\ mg_target_key = NoneStr
    /\ mg_bucket = <<>>
    /\ mg_calls = <<>>
    /\ mg_processed = <<>>
    /\ mg_success_count = 0
    /\ mg_failed_count = 0
    /\ mg_skipped_count = 0
    /\ mg_migrated_keys = <<>>
    /\ mg_result = NoStats
    /\ jb_pc = "idle"
    /\ jb_symbols = <<>>
    /\ jb_storage = "none"
    /\ jb_i = 1
    /\ jb_saves = <<>>
    /\ jb_outcomes = <<>>
    /\ jb_results = [s \in JobSymbols |-> "none"]
    /\ jb_success_count = 0
    /\ jb_failure_count = 0
    /\ jb_exit_code = -1
    /\ jb_status_code = 0
    /\ jb_log = <<>>
    /\ ss_pc = "idle"
    /\ ss_data = <<>>
    /\ ss_save_result = "none"
    /\ ss_loaded = NotLoaded
    /\ ss_listed = {}
    /\ ss_exists = "none"
    /\ lh_pc = "idle"
    /\ lh_mock_mode = FALSE
    /\ lh_symbols = <<>>
    /\ lh_i = 1
    /\ lh_results = [s \in JobSymbols |-> "none"]
    /\ lh_ends = <<>>
    /\ lh_response = NoResponse

NextGate ==
    \/ Validate
    \/ ExtractLatest
    \/ BuildDocuments

SpecGate == InitGate /\ [][NextGate]_vars

\* the key scheme with MOCK_MODE unset or set
InitKeys ==
    /\ ks_pc = "start"
    /\ ks_mock_env \in MockEnvs
    /\ ks_origin = NoOrigin
    /\ ks_key = <<>>
    /\ ks_info = NoInfo
    /\ ks_conv = NoConv
    /\ mg_pc = "idle"
    /\ mg_objects = <<>>
    /\ mg_args = NoArgs
    /\ mg_i = 1
    /\ mg_target_key = NoneStr
    /\ mg_bucket = <<>>
    /\ mg_calls = <<>>
    /\ mg_processed = <<>>
    /\ mg_success_count = 0
    /\ mg_failed_count = 0
    /\ mg_skipped_count = 0
    /\ mg_migrated_keys = <<>>
    /\ mg_result = NoStats
    /\ jb_pc = "idle"
    /\ jb_symbols = <<>>
    /\ jb_storage = "none"
    /\ jb_i = 1
    /\ jb_saves = <<>>
    /\ jb_outcomes = <<>>
    /\ jb_results = [s \in JobSymbols |-> "none"]
    /\ jb_success_count = 0
    /\ jb_failure_count = 0
    /\ jb_exit_code = -1
    /\ jb_status_code = 0
    /\ jb_log = <<>>
    /\ ss_pc = "idle"
    /\ ss_data = <<>>
    /\ ss_save_result = "none"
    /\ ss_loaded = NotLoaded
    /\ ss_listed = {}
    /\ ss_exists = "none"
    /\ lh_pc = "idle"
    /\ lh_mock_mode = FALSE
    /\ lh_symbols = <<>>
    /\ lh_i = 1
    /\ lh_results = [s \in JobSymbols |-> "none"]
    /\ lh_ends = <<>>
    /\ lh_response = NoResponse
    /\ store = [k \in AllKeys |-> NotFound]
    /\ mock_mode = FALSE
    /\ s3_mock_mode = FALSE
    /\ call = [p \in Callers |-> IdleCall]
    /\ next_uuid = 1
    /\ history = <<>>
    /\ oplog = {}
    /\ last_copy = 0
    /\ fc_pc = "loop"
    /\ fc_max_retries = DefaultMaxRetries
    /\ retry_count = 0
    /\ fc_log = <<>>
    /\ fc_sleeps = <<>>
    /\ fc_result = "pending"
    /\ mk_pc = "gen"
    /\ mk_outputsize = "compact"
    /\ mk_i = 0
    /\ mk_base = StartPrice * PriceScale
    /\ mk_last_date = Today + 1
    /\ mk_count = 0
    /\ mk_distinct = TRUE
    /\ mk_zero_volume = FALSE
    /\ mk_negative = FALSE
    /\ mk_inconsistent = FALSE
    /\ qg_pc = "raw"
    /\ qg_stock_data = <<>>
    /\ qg_result = NoResult
    /\ qg_latest = NoneDF
    /\ qg_documents = <<>>

NextKeys ==
    \/ BuildKey
    \/ BuildMetadataKey
    \/ BuildKeyV2
    \/ BuildMetadataKeyV2
    \/ ListKey
    \/ ParseKey
    \/ ConvertKey

SpecKeys == InitKeys /\ [][NextKeys]_vars

\* migrate_objects over a listing of the bucket, each listed key holding
\* its own content
InitMigrate ==
    /\ mg_pc = "visit"
    /\ mg_objects \in Listings
    /\ mg_args \in MigrateArgs
    /\ mg_i = 1
    /\ mg_target_key = NoneStr
    /\ mg_bucket = [k \in {mg_objects[j] : j \in 1..Len(mg_objects)} |-> k]
    /\ mg_calls = <<>>
    /\ mg_processed = <<>>
    /\ mg_success_count = 0
    /\ mg_failed_count = 0
    /\ mg_skipped_count = 0
    /\ mg_migrated_keys = <<>>
    /\ mg_result = NoStats
    /\ store = [k \in AllKeys |-> NotFound]
    /\ mock_mode = FALSE
    /\ s3_mock_mode = FALSE
    /\ call = [p \in Callers |-> IdleCall]
    /\ next_uuid = 1
    /\ history = <<>>
    /\ oplog = {}
    /\ last_copy = 0
    /\ fc_pc = "loop"
    /\ fc_max_retries = DefaultMaxRetries
    /\ retry_count = 0
    /\ fc_log = <<>>
    /\ fc_sleeps = <<>>
    /\ fc_result = "pending"
    /\ mk_pc = "gen"
    /\ mk_outputsize = "compact"
    /\ mk_i = 0
    /\ mk_base = StartPrice * PriceScale
    /\ mk_last_date = Today + 1
    /\ mk_count = 0
    /\ mk_distinct = TRUE
    /\ mk_zero_volume = FALSE
    /\ mk_negative = FALSE
    /\ mk_inconsistent = FALSE
    /\ qg_pc = "raw"
    /\ qg_stock_data = <<>>
    /\ qg_result = NoResult
    /\ qg_latest = NoneDF
    /\ qg_documents = <<>>
    /\ ks_pc = "start"
    /\ ks_mock_env = "false"
    /\ ks_origin = NoOrigin
    /\ ks_key = <<>>
    /\ ks_info = NoInfo
    /\ ks_conv = NoConv
    /\ jb_pc = "idle"
    /\ jb_symbols = <<>>
    /\ jb_storage = "none"
    /\ jb_i = 1
    /\ jb_saves = <<>>
    /\ jb_outcomes = <<>>
    /\ jb_results = [s \in JobSymbols |-> "none"]
    /\ jb_success_count = 0
    /\ jb_failure_count = 0
    /\ jb_exit_code = -1
    /\ jb_status_code = 0
    /\ jb_log = <<>>
    /\ ss_pc = "idle"
    /\ ss_data = <<>>
    /\ ss_save_result = "none"
    /\ ss_loaded = NotLoaded
    /\ ss_listed = {}
    /\ ss_exists = "none"
    /\ lh_pc = "idle"
    /\ lh_mock_mode = FALSE
    /\ lh_symbols = <<>>
    /\ lh_i = 1
    /\ lh_results = [s \in JobSymbols |-> "none"]
    /\ lh_ends = <<>>
    /\ lh_response = NoResponse

NextMigrate ==
    \/ VisitObject
    \/ CopyObject
    \/ DeleteObject
    \/ ReturnStats

SpecMigrate == InitMigrate /\ [][NextMigrate]_vars

\* main run by the Lambda handler over the configured symbols
InitJob ==
    /\ jb_pc = "start"
    /\ jb_symbols \in SymbolLists
    /\ jb_storage \in {"s3", "local", "none"}
    /\ jb_i = 1
    /\ jb_saves = <<>>
    /\ jb_outcomes = <<>>
    /\ jb_results = [s \in JobSymbols |-> "none"]
    /\ jb_success_count = 0
    /\ jb_failure_count = 0
    /\ jb_exit_code = -1
    /\ jb_status_code = 0
    /\ jb_log = <<>>
    /\ ss_pc = "idle"
    /\ ss_data = <<>>
    /\ ss_save_result = "none"
    /\ ss_loaded = NotLoaded
    /\ ss_listed = {}
    /\ ss_exists = "none"
    /\ lh_pc = "idle"
    /\ lh_mock_mode = FALSE
    /\ lh_symbols = <<>>
    /\ lh_i = 1
    /\ lh_results = [s \in JobSymbols |-> "none"]
    /\ lh_ends = <<>>
    /\ lh_response = NoResponse
    /\ store = [k \in AllKeys |-> NotFound]
    /\ mock_mode = FALSE
    /\ s3_mock_mode = FALSE
    /\ call = [p \in Callers |-> IdleCall]
    /\ next_uuid = 1
    /\ history = <<>>
    /\ oplog = {}
    /\ last_copy = 0
    /\ fc_pc = "loop"
    /\ fc_max_retries = DefaultMaxRetries
    /\ retry_count = 0
    /\ fc_log = <<>>
    /\ fc_sleeps = <<>>
    /\ fc_result = "pending"
    /\ mk_pc = "gen"
    /\ mk_outputsize = "compact"
    /\ mk_i = 0
    /\ mk_base = StartPrice * PriceScale
    /\ mk_last_date = Today + 1
    /\ mk_count = 0
    /\ mk_distinct = TRUE
    /\ mk_zero_volume = FALSE
    /\ mk_negative = FALSE
    /\ mk_inconsistent = FALSE
    /\ qg_pc = "raw"
    /\ qg_stock_data = <<>>
    /\ qg_result = NoResult
    /\ qg_latest = NoneDF
    /\ qg_documents = <<>>
    /\ ks_pc = "start"
    /\ ks_mock_env = "false"
    /\ ks_origin = NoOrigin
    /\ ks_key = <<>>
    /\ ks_info = NoInfo
    /\ ks_conv = NoConv
    /\ mg_pc = "idle"
    /\ mg_objects = <<>>
    /\ mg_args = NoArgs
    /\ mg_i = 1
    /\ mg_target_key = NoneStr
    /\ mg_bucket = <<>>
    /\ mg_calls = <<>>
    /\ mg_processed = <<>>
    /\ mg_success_count = 0
    /\ mg_failed_count = 0
    /\ mg_skipped_count = 0
    /\ mg_migrated_keys = <<>>
    /\ mg_result = NoStats

NextJob ==
    \/ MainSetup
    \/ MainSetupFails
    \/ ProcessSymbol
    \/ SaveKey
    \/ MainReturn
    \/ Handler

SpecJob == InitJob /\ [][NextJob]_vars

\* the test of S3Storage, MOCK_MODE read when the storage is constructed,
\* over a bucket where the test key is absent or holds an earlier payload
InitStorage ==
    /\ jb_pc = "idle"
    /\ jb_symbols = <<>>
    /\ jb_storage = "none"
    /\ jb_i = 1
    /\ jb_saves = <<>>
    /\ jb_outcomes = <<>>
    /\ jb_results = [s \in JobSymbols |-> "none"]
    /\ jb_success_count = 0
    /\ jb_failure_count = 0
    /\ jb_exit_code = -1
    /\ jb_status_code = 0
    /\ jb_log = <<>>
    /\ ss_pc = "save"
    /\ ss_data = <<>>
    /\ ss_save_result = "none"
    /\ ss_loaded = NotLoaded
    /\ ss_listed = {}
    /\ ss_exists = "none"
    /\ lh_pc = "idle"
    /\ lh_mock_mode = FALSE
    /\ lh_symbols = <<>>
    /\ lh_i = 1
    /\ lh_results = [s \in JobSymbols |-> "none"]
    /\ lh_ends = <<>>
    /\ lh_response = NoResponse
    /\ \E b \in {NotFound, JsonDumps(V0)}, t \in {NotFound, JsonDumps(V0)} :
          store = [k \in AllKeys |-> IF k = K THEN b ELSE t]
    /\ s3_mock_mode \in BOOLEAN
    /\ mock_mode = s3_mock_mode
    /\ call = [p \in Callers |-> IdleCall]
    /\ next_uuid = 1
    /\ history = <<>>
    /\ oplog = {}
    /\ last_copy = 0
    /\ fc_pc = "loop"
    /\ fc_max_retries = DefaultMaxRetries
    /\ retry_count = 0
    /\ fc_log = <<>>
    /\ fc_sleeps = <<>>
    /\ fc_result = "pending"
    /\ mk_pc = "gen"
    /\ mk_outputsize = "compact"
    /\ mk_i = 0
    /\ mk_base = StartPrice * PriceScale
    /\ mk_last_date = Today + 1
    /\ mk_count = 0
    /\ mk_distinct = TRUE
    /\ mk_zero_volume = FALSE
    /\ mk_negative = FALSE
    /\ mk_inconsistent = FALSE
    /\ qg_pc = "raw"
    /\ qg_stock_data = <<>>
    /\ qg_result = NoResult
    /\ qg_latest = NoneDF
    /\ qg_documents = <<>>
    /\ ks_pc = "start"
    /\ ks_mock_env = "false"
    /\ ks_origin = NoOrigin
    /\ ks_key = <<>>
    /\ ks_info = NoInfo
    /\ ks_conv = NoConv
    /\ mg_pc = "idle"
    /\ mg_objects = <<>>
    /\ mg_args = NoArgs
    /\ mg_i = 1
    /\ mg_target_key = NoneStr
    /\ mg_bucket = <<>>
    /\ mg_calls = <<>>
    /\ mg_processed = <<>>
    /\ mg_success_count = 0
    /\ mg_failed_count = 0
    /\ mg_skipped_count = 0
    /\ mg_migrated_keys = <<>>
    /\ mg_result = NoStats

NextStorage ==
    \/ SaveJson
    \/ LoadJsonCall
    \/ ListObjectsCall
    \/ ObjectExistsCall

SpecStorage == InitStorage /\ [][NextStorage]_vars

\* one invocation of the standalone Lambda function: MOCK_MODE either way,
\* STOCK_SYMBOLS naming up to MaxSymbols symbols
InitLambda ==
    /\ jb_pc = "idle"
    /\ jb_symbols = <<>>
    /\ jb_storage = "none"
    /\ jb_i = 1
    /\ jb_saves = <<>>
    /\ jb_outcomes = <<>>
    /\ jb_results = [s \in JobSymbols |-> "none"]
    /\ jb_success_count = 0
    /\ jb_failure_count = 0
    /\ jb_exit_code = -1
    /\ jb_status_code = 0
    /\ jb_log = <<>>
    /\ ss_pc = "idle"
    /\ ss_data = <<>>
    /\ ss_save_result = "none"
    /\ ss_loaded = NotLoaded
    /\ ss_listed = {}
    /\ ss_exists = "none"
    /\ lh_pc = "start"
    /\ lh_mock_mode \in BOOLEAN
    /\ lh_symbols \in SymbolLists
    /\ lh_i = 1
    /\ lh_results = [s \in JobSymbols |-> "none"]
    /\ lh_ends = <<>>
    /\ lh_response = NoResponse
    /\ store = [k \in AllKeys |-> NotFound]
    /\ mock_mode = FALSE
    /\ s3_mock_mode = FALSE
    /\ call = [p \in Callers |-> IdleCall]
    /\ next_uuid = 1
    /\ history = <<>>
    /\ oplog = {}
    /\ last_copy = 0
    /\ fc_pc = "loop"
    /\ fc_max_retries = DefaultMaxRetries
    /\ retry_count = 0
    /\ fc_log = <<>>
    /\ fc_sleeps = <<>>
    /\ fc_result = "pending"
    /\ mk_pc = "gen"
    /\ mk_outputsize = "compact"
    /\ mk_i = 0
    /\ mk_base = StartPrice * PriceScale
    /\ mk_last_date = Today + 1
    /\ mk_count = 0
    /\ mk_distinct = TRUE
    /\ mk_zero_volume = FALSE
    /\ mk_negative = FALSE
    /\ mk_inconsistent = FALSE
    /\ qg_pc = "raw"
    /\ qg_stock_data = <<>>
    /\ qg_result = NoResult
    /\ qg_latest = NoneDF
    /\ qg_documents = <<>>
    /\ ks_pc = "start"
    /\ ks_mock_env = "false"
    /\ ks_origin = NoOrigin
    /\ ks_key = <<>>
    /\ ks_info = NoInfo
    /\ ks_conv = NoConv
    /\ mg_pc = "idle"
    /\ mg_objects = <<>>
    /\ mg_args = NoArgs
    /\ mg_i = 1
    /\ mg_target_key = NoneStr
    /\ mg_bucket = <<>>
    /\ mg_calls = <<>>
    /\ mg_processed = <<>>
    /\ mg_success_count = 0
    /\ mg_failed_count = 0
    /\ mg_skipped_count = 0
    /\ mg_migrated_keys = <<>>
    /\ mg_result = NoStats

NextLambda ==
    \/ HandlerMock
    \/ HandlerStart
    \/ HandlerFails
    \/ HandleSymbol
    \/ HandlerReturn

SpecLambda == InitLambda /\ [][NextLambda]_vars

\* ------------------------------------------------------------------------
\* Claims about AlphaVantageClient
\* ------------------------------------------------------------------------
IsTransportError(r) == r.kind \in TransportErrors

\* a 2xx JSON document with the container and five-field records
IsValidDocument(r) ==
    /\ r.kind = "json"
    /\ Container \in r.top
    /\ r.series # <<>>
    /\ \A i \in 1..Len(r.series) : r.series[i] = ExpectedKeys

\* a 2xx JSON document without the container, or whose sampled (first)
\* record does not have exactly the five fields
IsSchemaFailure(r) ==
    /\ r.kind = "json"
    /\ \/ Container \notin r.top
       \/ (r.series # <<>> /\ r.series[1] # ExpectedKeys)

\* C8: _make_api_request issues at most max_retries + 1 requests; when
\* every request fails with a transport error it issues exactly
\* max_retries + 1 requests and returns None; when attempt k is the first
\* to return a valid response, exactly k requests are issued and the data
\* is returned; while the loop runs the next request is always possible.
C8_BoundedRetry ==
    /\ Len(fc_log) <= fc_max_retries + 1
    /\ fc_pc = "loop" => (retry_count = Len(fc_log) /\ retry_count <= fc_max_retries
                          /\ fc_result = "pending")
    /\ (fc_pc = "done" /\ \A i \in 1..Len(fc_log) : IsTransportError(fc_log[i]))
          => (Len(fc_log) = fc_max_retries + 1 /\ fc_result = "None")
    /\ \A k \in 1..Len(fc_log) :
          (IsValidDocument(fc_log[k]) /\ \A i \in 1..(k - 1) : IsTransportError(fc_log[i]))
          => (Len(fc_log) = k /\ fc_pc = "done" /\ fc_result = "data")

\* C8 witness: with the default of 3 retries, three transport errors and
\* then a valid response on the fourth request
C8_Witness ==
    /\ fc_max_retries = DefaultMaxRetries
    /\ fc_pc = "done"
    /\ Len(fc_log) = 4
    /\ \A i \in 1..3 : IsTransportError(fc_log[i])
    /\ fc_result = "data"

\* C9: a response that lacks the "Time Series (Daily)" container, or whose
\* sampled record does not have exactly the five fields, ends the call:
\* failure is returned, no sleep follows and no further request is
\* issued; as the first response, after exactly one request.
C9_SchemaNotRetried ==
    \A k \in 1..Len(fc_log) :
        IsSchemaFailure(fc_log[k]) =>
            /\ Len(fc_log) = k
            /\ fc_pc = "done"
            /\ fc_result = "None"
            /\ Len(fc_sleeps) = k - 1
            /\ retry_count = k - 1

\* C9 witness: the first response misses "2. high" in its sampled record
C9_Witness ==
    /\ Len(fc_log) = 1
    /\ fc_log[1].kind = "json"
    /\ Container \in fc_log[1].top
    /\ fc_log[1].series # <<>>
    /\ fc_log[1].series[1] = ExpectedKeys \ {"2. high"}
    /\ fc_sleeps = <<>>
    /\ fc_result = "None"

\* C10: every series produced by _get_mock_data passes the quality gate:
\* all volumes non-zero, no negative price, low <= high with open and
\* close in [low, high] in every row, and as many distinct dates as
\* requested (100 for compact, 500 otherwise).
C10_MockDataAccepted ==
    mk_pc = "done" =>
        /\ ~mk_zero_volume
        /\ ~mk_negative
        /\ ~mk_inconsistent
        /\ mk_distinct
        /\ mk_count = NumDays(mk_outputsize)

\* ------------------------------------------------------------------------
\* Claims about StockDataProcessor
\* ------------------------------------------------------------------------
\* the days of the document, in the order received
ReceivedDays == IF Container \in DOMAIN qg_stock_data THEN qg_stock_data[Container] ELSE <<>>

HasNumber(day, col) == col \in DOMAIN day.fields /\ day.fields[col].kind = "number"

Number(day, col) == day.fields[col].val

\* a day with a date, the five numeric fields, no negative price, and
\* open and close between low and high
DayIsClean(day) ==
    /\ day.date.fmt = "iso"
    /\ DOMAIN day.fields = RawColumns
    /\ \A col \in RawColumns : HasNumber(day, col)
    /\ \A col \in RawColumns \ {Col("5", "volume")} : Number(day, col) >= 0
    /\ Number(day, Col("3", "low")) <= Number(day, Col("1", "open"))
    /\ Number(day, Col("1", "open")) <= Number(day, Col("2", "high"))
    /\ Number(day, Col("3", "low")) <= Number(day, Col("4", "close"))
    /\ Number(day, Col("4", "close")) <= Number(day, Col("2", "high"))

DayHasZeroVolume(day) ==
    HasNumber(day, Col("5", "volume")) /\ Number(day, Col("5", "volume")) = 0

\* no price of the days exceeds ten times the 99th percentile of its column
NoOutlier(days) ==
    \A col \in RawColumns \ {Col("5", "volume")} :
        LET xs == [i \in 1..Len(days) |-> Number(days[i], col)]
        IN \A i \in 1..Len(xs) : 100 * xs[i] <= 10 * Quantile99(xs)

Rejected == ~qg_result.valid /\ qg_result.df = NoneDF

\* C11: validate_and_transform rejects every series that has a day with
\* volume 0, whatever the other days are, and accepts a non-empty series
\* that passes all other checks and has every volume above 0.
C11_ZeroVolumeGate ==
    qg_pc # "raw" =>
        /\ (\E i \in 1..Len(ReceivedDays) : DayHasZeroVolume(ReceivedDays[i])) => Rejected
        /\ ( /\ ReceivedDays # <<>>
             /\ \A i \in 1..Len(ReceivedDays) :
                   /\ DayIsClean(ReceivedDays[i])
                   /\ Number(ReceivedDays[i], Col("5", "volume")) > 0
             /\ NoOutlier(ReceivedDays) )
           => qg_result.valid

\* C11 witness: five days, volume 0 on 2024-01-03 only, were rejected
C11_Witness ==
    /\ qg_pc = "validated"
    /\ ReceivedDays = FiveDaysZeroVolume
    /\ Rejected

C13_DateOrderGate ==
    ( /\ qg_pc # "raw"
      /\ \A i \in 1..Len(ReceivedDays) : ReceivedDays[i].date.fmt = "iso"
      /\ \E i \in 1..(Len(ReceivedDays) - 1) :
            ReceivedDays[i].date.day <= ReceivedDays[i + 1].date.day )
    => Rejected

\* a day that fails a check: an unparseable number, a null or missing
\* field, volume 0, a negative price, or low, high, open, close out of order
DayFails(day) ==
    \/ \E col \in RawColumns : ~HasNumber(day, col)
    \/ DayHasZeroVolume(day)
    \/ \E col \in RawColumns \ {Col("5", "volume")} : Number(day, col) < 0
    \/ Number(day, Col("3", "low")) > Number(day, Col("2", "high"))
    \/ Number(day, Col("1", "open")) > Number(day, Col("2", "high"))
    \/ Number(day, Col("1", "open")) < Number(day, Col("3", "low"))
    \/ Number(day, Col("4", "close")) > Number(day, Col("2", "high"))
    \/ Number(day, Col("4", "close")) < Number(day, Col("3", "low"))

\* a day on which the transformation raises: a key that is no date, a
\* field name without ". "
DayRaises(day) ==
    \/ day.date.fmt # "iso"
    \/ \E col \in DOMAIN day.fields : Len(col) < 3

\* C14: validate_and_transform returns (True, series) or (False, None) and
\* nothing else; the series returned has every day received; when the
\* series is empty, a day fails a check or the transformation raises, it
\* returns (False, None).
C14_NoPartialAcceptance ==
    qg_pc # "raw" =>
        /\ qg_result.valid <=> qg_result.df # NoneDF
        /\ qg_result.valid =>
              /\ qg_result.df.error = "none"
              /\ Len(qg_result.df.rows) = Len(ReceivedDays)
        /\ ( \/ ReceivedDays = <<>>
             \/ \E i \in 1..Len(ReceivedDays) :
                   DayFails(ReceivedDays[i]) \/ DayRaises(ReceivedDays[i]) )
           => Rejected

\* C14 witness: a series with one clean day and one failing day was
\* rejected as a whole
C14_Witness ==
    /\ qg_pc = "validated"
    /\ Rejected
    /\ Len(ReceivedDays) = 2
    /\ DayIsClean(ReceivedDays[1]) /\ ~DayHasZeroVolume(ReceivedDays[1])
    /\ ~DayRaises(ReceivedDays[2]) /\ DayFails(ReceivedDays[2])

\* C15: extract_latest_data returns exactly one row of an accepted series,
\* the row of the greatest date received with that day's values, in
\* whatever order the days were received; the accepted series has as many
\* rows as days were received (5 rows and latest 2024-01-05 for the days
\* 2024-01-01 .. 2024-01-05).
C15_LatestExtraction ==
    qg_pc = "extracted" =>
        /\ Len(qg_latest.rows) = 1
        /\ Len(qg_result.df.rows) = Len(ReceivedDays)
        /\ \E i \in 1..Len(ReceivedDays) :
              /\ \A j \in 1..Len(ReceivedDays) :
                    ReceivedDays[j].date.day <= ReceivedDays[i].date.day
              /\ qg_latest.rows[1].date = ReceivedDays[i].date.day
              /\ \A col \in RawColumns :
                    qg_latest.rows[1].cells[<<col[3]>>] = Num(Number(ReceivedDays[i], col))
        /\ ReceivedDays \in {FiveDaysDescending, FiveDaysAscending} =>
              /\ Len(qg_result.df.rows) = 5
              /\ qg_latest.rows[1].date = 5

\* C15 witness: the latest row was extracted from five days received
\* oldest first
C15_Witness ==
    /\ qg_pc = "extracted"
    /\ ReceivedDays = FiveDaysAscending
    /\ qg_latest.rows[1].date = 5

\* ------------------------------------------------------------------------
\* Claims about the key scheme
\* ------------------------------------------------------------------------
JsonFile(name) == <<"/", name, ".", "json">>

\* the environment a key is built for
OriginEnv ==
    IF ks_origin.is_mock = "True" THEN <<"test">>
    ELSE IF ks_origin.is_mock = "False" THEN <<"prod">>
    ELSE IF ks_mock_env \in {"true", "TRUE", "True"} THEN <<"test">>
    ELSE <<"prod">>

\* '{env}/stock/{data_type}/{symbol}' of the key built
OriginBase ==
    OriginEnv \o <<"/", "stock", "/">> \o ks_origin.data_type \o <<"/">> \o ks_origin.symbol

\* a date YYYY-MM-DD
IsWellFormedDate(date) == Len(date) = 5 /\ date[2] = "-" /\ date[4] = "-"

OriginKeyType ==
    IF ks_origin.func = "get_metadata_key" THEN "metadata"
    ELSE IF ks_origin.is_latest THEN "latest"
    ELSE IF ks_origin.date # NoneStr THEN "daily"
    ELSE "full"

BuiltByScheme == ks_origin.func \in {"get_s3_key", "get_metadata_key"} /\ ks_pc # "raised"

\* C16: get_s3_key returns '{env}/stock/{data_type}/{symbol}/latest.json'
\* when is_latest is true (also when a date is given), otherwise
\* '.../daily/{YYYY}/{MM}/{DD}.json' when a date YYYY-MM-DD is given,
\* otherwise '.../full.json'; get_metadata_key returns '.../metadata.json';
\* env is 'test' if is_mock else 'prod' (is_mock None: as MOCK_MODE says).
C16_KeyLayout ==
    /\ (ks_origin.func = "get_s3_key" /\ ks_origin.is_latest) =>
          (ks_pc # "raised" /\ ks_key = OriginBase \o JsonFile("latest"))
    /\ (ks_origin.func = "get_s3_key" /\ ~ks_origin.is_latest
            /\ IsWellFormedDate(ks_origin.date)) =>
          /\ ks_pc # "raised"
          /\ ks_key = OriginBase \o <<"/", "daily", "/", ks_origin.date[1], "/",
                                      ks_origin.date[3], "/", ks_origin.date[5],
                                      ".", "json">>
    /\ (ks_origin.func = "get_s3_key" /\ ~ks_origin.is_latest
            /\ ks_origin.date = NoneStr) =>
          (ks_pc # "raised" /\ ks_key = OriginBase \o JsonFile("full"))
    /\ ks_origin.func = "get_metadata_key" =>
          (ks_pc # "raised" /\ ks_key = OriginBase \o JsonFile("metadata"))

\* C16 witness: is_latest with a date also given, for the test environment
C16_Witness ==
    /\ ks_pc = "built"
    /\ ks_origin.func = "get_s3_key"
    /\ ks_origin.is_latest
    /\ ks_origin.date = <<"2024", "-", "01", "-", "01">>
    /\ ks_origin.is_mock = "True"
    /\ ks_origin.data_type = <<"processed">>
    /\ ks_key = <<"test", "/", "stock", "/", "processed", "/", "NVDA", "/",
                  "latest", ".", "json">>

\* C17: a key built by get_s3_key or get_metadata_key decodes to version
\* v2 with the environment, data_type, symbol, key_type and date it was
\* built from, and encoding the decoded fields again gives the same key.
C17_RoundTrip ==
    (BuiltByScheme /\ ks_pc \in {"parsed", "converted"}) =>
        /\ ks_info.error = "none"
        /\ ks_info.version = "v2"
        /\ ks_info.environment = OriginEnv
        /\ ks_info.data_type = ks_origin.data_type
        /\ ks_info.symbol = ks_origin.symbol
        /\ ks_info.key_type = OriginKeyType
        /\ ks_info.date = (IF OriginKeyType = "daily" THEN ks_origin.date ELSE NoneStr)
        /\ LET is_mock == IF ks_info.environment = <<"test">> THEN "True" ELSE "False"
           IN IF ks_info.key_type = "metadata"
              THEN GetMetadataKey(ks_info.symbol, ks_info.data_type, is_mock, ks_mock_env)
                       = Returned(ks_key)
              ELSE GetS3Key(ks_info.symbol, ks_info.data_type, ks_info.date,
                            ks_info.key_type = "latest", is_mock, ks_mock_env)
                       = Returned(ks_key)

\* C17 witness: the daily key of 2023-12-31 for BRK.B was decoded
C17_Witness ==
    /\ ks_pc = "parsed"
    /\ ks_origin.func = "get_s3_key"
    /\ ks_key = <<"prod", "/", "stock", "/", "raw", "/", "BRK", ".", "B", "/", "daily",
                  "/", "2023", "/", "12", "/", "31", ".", "json">>
    /\ ks_info.key_type = "daily"
    /\ ks_info.date = <<"2023", "-", "12", "-", "31">>

\* C18: convert_key_format(K, 'v2') with no further option returns K for
\* every key K built by get_s3_key or get_metadata_key.
C18_ConvertIdempotent ==
    ( /\ BuiltByScheme
      /\ ks_pc = "converted"
      /\ ks_conv.target = "v2"
      /\ DOMAIN ks_conv.kwargs = {} )
    => ks_conv.result = Returned(ks_key)

\* keys cut short: a key of a layout without its last parts, itself no key
\* of a layout
IsTruncatedKey(key) ==
    /\ key \notin LayoutKeys
    /\ \E k \in LayoutKeys :
          \E n \in 0..(Len(Split(k, "/")) - 1) :
              key = Join(SubSeq(Split(k, "/"), 1, n), "/")

\* C19: parse_s3_key returns a record for every key and never raises; a
\* key cut short of a complete v1, v2 or lambda key is returned as version
\* 'unknown'.
C19_DecodeTotal ==
    ks_pc \in {"parsed", "converted"} =>
        /\ ks_info.error = "none"
        /\ IsTruncatedKey(ks_key) => ks_info.version = "unknown"

\* C20: a recognized v1 or lambda key with a well-formed date converts,
\* with data_type d and is_mock m, to a key that decodes to version v2 with
\* the same symbol, key_type and date, data_type d and environment test
\* iff m; 'stock-data-mock/NVDA/daily/2024-01-01.json' decodes as v1, NVDA,
\* daily, 2024-01-01 and converts with raw and true to
\* 'test/stock/raw/NVDA/daily/2024/01/01.json'.
C20_ConvertPreservesMeaning ==
    ( /\ ks_pc = "converted"
      /\ ks_info.version \in {"v1", "lambda"}
      /\ ks_info.key_type = "daily" => IsWellFormedDate(ks_info.date)
      /\ ks_conv.target = "v2"
      /\ DOMAIN ks_conv.kwargs = {"data_type", "is_mock"} )
    => /\ ks_conv.result.error = "none"
       /\ LET back == ParseS3Key(ks_conv.result.key)
          IN /\ back.error = "none"
             /\ back.version = "v2"
             /\ back.symbol = ks_info.symbol
             /\ back.key_type = ks_info.key_type
             /\ back.date = ks_info.date
             /\ back.data_type = ks_conv.kwargs.data_type
             /\ back.environment \in {<<"test">>, <<"prod">>}
             /\ back.environment = <<"test">> <=> ks_conv.kwargs.is_mock = "True"
       /\ ks_key = <<"stock", "-", "data", "-", "mock", "/", "NVDA", "/", "daily", "/",
                     "2024", "-", "01", "-", "01", ".", "json">> =>
             /\ ks_info.version = "v1"
             /\ ks_info.symbol = <<"NVDA">>
             /\ ks_info.key_type = "daily"
             /\ ks_info.date = <<"2024", "-", "01", "-", "01">>
             /\ ks_conv.kwargs = [data_type |-> <<"raw">>, is_mock |-> "True"] =>
                   ks_conv.result.key =
                       <<"test", "/", "stock", "/", "raw", "/", "NVDA", "/", "daily", "/",
                         "2024", "/", "01", "/", "01", ".", "json">>

\* C20 witness: 'stock-data-mock/NVDA/daily/2024-01-01.json' was converted
\* with data_type raw and is_mock true
C20_Witness ==
    /\ ks_pc = "converted"
    /\ ks_key = <<"stock", "-", "data", "-", "mock", "/", "NVDA", "/", "daily", "/",
                  "2024", "-", "01", "-", "01", ".", "json">>
    /\ ks_conv.target = "v2"
    /\ ks_conv.kwargs = [data_type |-> <<"raw">>, is_mock |-> "True"]
    /\ ks_conv.result.error = "none"

\* C21: convert_key_format raises ValueError and returns no key when the
\* source key decodes as version 'unknown', when the target version is none
\* of v1, v2 and lambda, and when a latest, full or metadata key is
\* converted to the lambda layout.
C21_UnsupportedConversion ==
    ( /\ ks_pc = "converted"
      /\ ks_info.error = "none"
      /\ \/ ks_info.version = "unknown"
         \/ ks_conv.target \notin {"v1", "v2", "lambda"}
         \/ /\ ks_conv.target = "lambda"
            /\ ks_info.key_type \in {"latest", "full", "metadata"} )
    => ks_conv.result = Raises("ValueError")

\* C21 witness: the v2 key 'prod/stock/raw/NVDA/latest.json' was decoded as
\* a latest key and its conversion to the lambda layout raised
C21_Witness ==
    /\ ks_pc = "converted"
    /\ ks_key = <<"prod", "/", "stock", "/", "raw", "/", "NVDA", "/", "latest", ".", "json">>
    /\ ks_info.version = "v2"
    /\ ks_info.key_type = "latest"
    /\ ks_conv.target = "lambda"
    /\ ks_conv.result = Raises("ValueError")

\* ------------------------------------------------------------------------
\* Claims about the migration
\* ------------------------------------------------------------------------
\* the positions of mg_processed counted as outcome
Counted(outcome) == {j \in 1..Len(mg_processed) : mg_processed[j][2] = outcome}

\* the calls made for source_key
CallsFor(source_key) ==
    {n \in 1..Len(mg_calls) : mg_calls[n].source_key = source_key}

\* the calls in which a request was made to the store
Requests == {n \in 1..Len(mg_calls) : mg_calls[n].outcome # "dry"}

\* C22: migrate_objects visits every listed key exactly once, in listing
\* order, lets no exception escape and returns the statistics; an object
\* that fails only adds one to failed.
C22_NeverAborts ==
    /\ mg_pc # "raised"
    /\ \A j \in 1..Len(mg_processed) : mg_processed[j][1] = mg_objects[j]
    /\ mg_failed_count = Cardinality(Counted("failed"))
    /\ mg_pc = "returned" =>
          /\ Len(mg_processed) = Len(mg_objects)
          /\ mg_result.error = "none"
          /\ mg_result.total = Len(mg_objects)
          /\ mg_result.success + mg_result.failed + mg_result.skipped = mg_result.total

\* the key decodes as 'unknown' or as already at the target version
DecodesAsSkipped(source_key) ==
    ParseS3Key(source_key).version \in {"unknown", mg_args.target_version}

\* a key that is skipped causes no call, is counted skipped and is in no
\* migrated pair
SkipRule(j) ==
    LET source_key == mg_processed[j][1]
    IN DecodesAsSkipped(source_key) =>
          /\ CallsFor(source_key) = {}
          /\ mg_processed[j][2] = "skipped"
          /\ \A n \in 1..Len(mg_migrated_keys) : mg_migrated_keys[n][1] # source_key

\* C23 as stated: a key decoding as 'unknown' or as the target version
\* causes no copy and no delete, is counted skipped and not failed or
\* success, and is in no migrated pair; every other key is converted and
\* copied.
C23_SkipRuleStated ==
    /\ mg_skipped_count = Cardinality(Counted("skipped"))
    /\ \A j \in 1..Len(mg_processed) :
          /\ SkipRule(j)
          /\ ~DecodesAsSkipped(mg_processed[j][1]) =>
                \E n \in CallsFor(mg_processed[j][1]) : mg_calls[n].op = "copy"

\* C23: a key decoding as 'unknown' or as the target version causes no copy
\* and no delete, is counted skipped and not failed or success, and is in
\* no migrated pair; every other key is converted, and is copied to the key
\* the conversion returns; when the conversion raises, the key is counted
\* failed and nothing is copied.
C23_SkipRule ==
    /\ mg_skipped_count = Cardinality(Counted("skipped"))
    /\ \A j \in 1..Len(mg_processed) :
          /\ SkipRule(j)
          /\ ~DecodesAsSkipped(mg_processed[j][1]) =>
                LET source_key == mg_processed[j][1]
                    converted ==
                        ConvertKeyFormat(source_key, mg_args.target_version,
                                         [data_type |-> mg_args.data_type,
                                          is_mock |-> mg_args.is_mock], MigEnviron)
                IN IF converted.error = "none"
                   THEN /\ mg_processed[j][2] # "skipped"
                        /\ \E n \in CallsFor(source_key) :
                              /\ mg_calls[n].op = "copy"
                              /\ mg_calls[n].target_key = converted.key
                   ELSE /\ mg_processed[j][2] = "failed"
                        /\ CallsFor(source_key) = {}

\* C23 witness: of two listed keys one was skipped as already v2 and the
\* other, a v1 key, was copied to its v2 key
C23_Witness ==
    /\ mg_pc = "returned"
    /\ mg_args.target_version = "v2"
    /\ mg_result.skipped = 1
    /\ mg_result.success = 1
    /\ \E n \in 1..Len(mg_calls) :
          /\ mg_calls[n].op = "copy"
          /\ mg_calls[n].source_key =
                <<"stock", "-", "data", "/", "NVDA", "/", "latest", ".", "json">>
          /\ mg_calls[n].outcome = "ok"

\* the pairs a run reports when every copy and delete succeeds
RECURSIVE ExpectedPairs(_, _)
ExpectedPairs(objects, args) ==
    IF objects = <<>> THEN <<>>
    ELSE LET converted ==
                 ConvertKeyFormat(Head(objects), args.target_version,
                                  [data_type |-> args.data_type, is_mock |-> args.is_mock],
                                  MigEnviron)
         IN (IF ParseS3Key(Head(objects)).version \notin {"unknown", args.target_version}
                /\ converted.error = "none"
             THEN << <<Head(objects), converted.key>> >> ELSE <<>>)
            \o ExpectedPairs(Tail(objects), args)

\* C24: a dry run makes no request to the store and leaves the bucket as
\* it was, and it returns the statistics and pairs that a run over the same
\* listing with the same arguments returns when it is no dry run and each
\* of its copies and deletes succeeds.
C24_DryRun ==
    /\ mg_args.dry_run =>
          /\ Requests = {}
          /\ mg_bucket = [k \in {mg_objects[j] : j \in 1..Len(mg_objects)} |-> k]
    /\ ( /\ mg_pc = "returned"
         /\ mg_args.dry_run \/ \A n \in 1..Len(mg_calls) : mg_calls[n].outcome = "ok" )
       => /\ mg_result.error = "none"
          /\ mg_result.migrated_keys = ExpectedPairs(mg_objects, mg_args)
          /\ mg_result.success = Len(ExpectedPairs(mg_objects, mg_args))
          /\ mg_result.total = Len(mg_objects)
          /\ mg_result.skipped =
                Cardinality({j \in 1..Len(mg_objects) : DecodesAsSkipped(mg_objects[j])})
          /\ mg_result.failed =
                mg_result.total - mg_result.skipped - mg_result.success

\* C24 witness: a dry run with delete_source over two v1 keys returned two
\* successes after a copy and a delete were called for each
C24_Witness ==
    /\ mg_pc = "returned"
    /\ mg_args.dry_run
    /\ mg_args.delete_source
    /\ mg_result.success = 2
    /\ Len(mg_result.migrated_keys) = 2
    /\ Len(mg_calls) = 4

\* a request to delete a key follows a copy of that key that succeeded
DeleteFollowsCopy ==
    \A n \in Requests :
        mg_calls[n].op = "delete" =>
            \E m \in 1..(n - 1) :
                /\ mg_calls[m].op = "copy"
                /\ mg_calls[m].source_key = mg_calls[n].source_key
                /\ mg_calls[m].outcome = "ok"

\* a key whose copy failed is not deleted and is counted failed
FailedCopyKeepsSource ==
    \A n \in Requests :
        (mg_calls[n].op = "copy" /\ mg_calls[n].outcome # "ok") =>
            /\ \A m \in CallsFor(mg_calls[n].source_key) : mg_calls[m].op # "delete"
            /\ mg_calls[n].source_key \in DOMAIN mg_bucket
            /\ \A j \in 1..Len(mg_processed) :
                  mg_processed[j][1] = mg_calls[n].source_key =>
                      mg_processed[j][2] = "failed"

\* without delete_source no delete is called
NoDeleteUnlessAsked ==
    ~mg_args.delete_source => \A n \in 1..Len(mg_calls) : mg_calls[n].op # "delete"

\* the content of every object copied is found under its source key or
\* under its target key
ContentKept ==
    \A n \in Requests :
        (mg_calls[n].op = "copy" /\ mg_calls[n].outcome = "ok") =>
            LET source_key == mg_calls[n].source_key
                target_key == mg_calls[n].target_key
            IN \/ source_key \in DOMAIN mg_bucket /\ mg_bucket[source_key] = source_key
               \/ target_key \in DOMAIN mg_bucket /\ mg_bucket[target_key] = source_key

\* C25: the source is deleted only after its copy succeeded; when the copy
\* fails the source is not deleted and the object is reported failed;
\* without delete_source no source is deleted; at every point the content
\* of each migrated object is under its source key or its target key.
C25_NoDataLoss ==
    /\ DeleteFollowsCopy
    /\ FailedCopyKeepsSource
    /\ NoDeleteUnlessAsked
    /\ ContentKept

\* ------------------------------------------------------------------------
\* Claims about the daily job
\* ------------------------------------------------------------------------
\* the outcome recorded last, that of the symbol jb_saves is about once
\* process_symbol has returned
LastOutcome == jb_outcomes[Len(jb_outcomes)]

\* C26: with save_to_s3, the raw latest key is the first key process_symbol
\* saves; when that save fails the symbol is failed and no other key is
\* saved; when it succeeds the symbol is a success whichever later save
\* fails.
C26_PrimaryKeyGating ==
    jb_saves # <<>> =>
        /\ jb_saves[1].key = <<"raw", "latest">>
        /\ ~jb_saves[1].saved =>
              /\ Len(jb_saves) = 1
              /\ jb_pc # "save"
              /\ LastOutcome = "fail"
              /\ jb_results[jb_symbols[Len(jb_outcomes)]] = "FAILURE"
        /\ jb_saves[1].saved =>
              \/ jb_pc = "save" /\ Len(jb_saves) < Len(SaveOrder)
              \/ /\ jb_pc # "save"
                 /\ Len(jb_saves) = Len(SaveOrder)
                 /\ LastOutcome = "ok"
                 /\ jb_results[jb_symbols[Len(jb_outcomes)]] = "SUCCESS"

\* C26 witness: the raw latest key was saved, the saves of the raw daily
\* key and of the processed metadata key failed, and the symbol is a success
C26_Witness ==
    /\ jb_pc = "loop"
    /\ Len(jb_saves) = Len(SaveOrder)
    /\ jb_saves[1].saved
    /\ ~jb_saves[2].saved
    /\ ~jb_saves[Len(SaveOrder)].saved
    /\ LastOutcome = "ok"

\* the position at which the symbol at position j was processed last
LastPosition(j) ==
    CHOOSE k \in 1..Len(jb_outcomes) :
        /\ jb_symbols[k] = jb_symbols[j]
        /\ \A m \in 1..Len(jb_outcomes) : jb_symbols[m] = jb_symbols[j] => m <= k

\* C27: a symbol that fails or raises does not keep the loop of main from
\* processing the symbols after it; after the loop results holds a status
\* for every configured symbol and success_count + failure_count is the
\* number of symbols.
C27_SymbolIsolation ==
    /\ jb_success_count + jb_failure_count = Len(jb_outcomes)
    /\ jb_success_count = Cardinality({j \in 1..Len(jb_outcomes) : jb_outcomes[j] = "ok"})
    /\ jb_pc = "raised" => jb_outcomes = <<>>
    /\ \A j \in 1..Len(jb_outcomes) :
          LET outcome == jb_outcomes[LastPosition(j)]
          IN jb_results[jb_symbols[j]] =
                (IF outcome = "ok" THEN "SUCCESS"
                 ELSE IF outcome = "fail" THEN "FAILURE" ELSE "ERROR")
    /\ jb_pc \in {"returned", "responded"} =>
          /\ Len(jb_outcomes) = Len(jb_symbols)
          /\ jb_success_count + jb_failure_count = Len(jb_symbols)
          /\ \A j \in 1..Len(jb_symbols) : jb_results[jb_symbols[j]] # "none"

\* C27 witness: the first symbol raised, the second was processed and is a
\* success, and main returned
C27_Witness ==
    /\ jb_pc = "returned"
    /\ jb_symbols = <<"NVDA", "AAPL">>
    /\ jb_outcomes = <<"raise", "ok">>
    /\ jb_results["NVDA"] = "ERROR"
    /\ jb_results["AAPL"] = "SUCCESS"
    /\ jb_failure_count = 1

\* C28: main returns non-zero iff at least one symbol failed; the Lambda
\* handler answers statusCode 200 for exit code 0, and 500 for any other
\* exit code and for any exception of main.
C28_ExitStatus ==
    /\ jb_pc \in {"returned", "responded"} =>
          (jb_exit_code # 0 <=> \E j \in 1..Len(jb_outcomes) : jb_outcomes[j] # "ok")
    /\ jb_pc = "responded" =>
          /\ jb_exit_code = 0 => jb_status_code = 200
          /\ jb_exit_code # 0 => jb_status_code = 500
    /\ jb_pc = "responded after raise" => jb_status_code = 500

\* C28 witness: of two symbols the second failed, main returned 1 and the
\* handler answered 500
C28_Witness ==
    /\ jb_pc = "responded"
    /\ jb_outcomes = <<"ok", "fail">>
    /\ jb_exit_code = 1
    /\ jb_status_code = 500

\* ------------------------------------------------------------------------
\* Claims about S3Storage and the staging of atomic_json_update
\* ------------------------------------------------------------------------
\* the puts issued by the call with this id
PutsOf(id) == {o \in oplog : o.id = id /\ o.op = "put"}

\* C30: against a real store, atomic_json_update(key, data) causes one put,
\* whose object key is the temporary key of the call and whose body is the
\* JSON serialization of data.
C30_StagedUnderTempKey ==
    RealStore =>
        \A h \in Entries :
            h.how = "atomic_json_update" =>
                /\ Cardinality(PutsOf(h.id)) = 1
                /\ \A o \in PutsOf(h.id) :
                      /\ o.key = TmpKey(K, h.id)
                      /\ o.ok => o.body = JsonDumps(h.data)

\* every field of data is in loaded with the value saved
HasEveryField(data, loaded) ==
    \A i \in 1..Len(data) : \E j \in 1..Len(loaded) : loaded[j] = data[i]

\* C29: with MOCK_MODE set to true before the storage is constructed,
\* after save_json(data, key) returned True load_json(key) returns an
\* object that has every field of data with the value saved,
\* list_objects(prefix) contains key and object_exists(key) is True.
C29_WriteThenRead ==
    (s3_mock_mode /\ ss_save_result = "True") =>
        /\ ss_pc \in {"list", "exists", "done"} => HasEveryField(ss_data, ss_loaded)
        /\ ss_pc \in {"exists", "done"} => K \in ss_listed
        /\ ss_pc = "done" => ss_exists = "True"

\* ------------------------------------------------------------------------
\* Claims about the retry policy of _make_api_request
\* ------------------------------------------------------------------------
\* C31: a request answered by a 2xx response with a JSON body is the last
\* request of the call: the call is over, with the data or with None, and
\* no request follows it; this includes a response whose
\* "Time Series (Daily)" container is present but empty.
C31_OnlyTransportRetried ==
    \A k \in 1..Len(fc_log) :
        fc_log[k].kind = "json" =>
            /\ Len(fc_log) = k
            /\ fc_pc = "done"

\* the number of backoff sleeps the loop made for the attempts so far: one
\* after each attempt that was retried, none after attempt max_retries + 1
SleepsDue ==
    IF retry_count <= fc_max_retries THEN retry_count ELSE fc_max_retries

\* no sleep follows the last attempt nor a schema failure
NoSleepAtExit ==
    /\ Len(fc_sleeps) = SleepsDue
    /\ \A k \in 1..Len(fc_log) :
          IsSchemaFailure(fc_log[k]) => Len(fc_sleeps) = k - 1

\* C32 as stated: the delay slept after failed attempt i (counted from 0)
\* is at least 2^i s and less than 2^i + 1 s, the delays are strictly
\* increasing, and no sleep follows the last failed attempt or a schema
\* failure.
C32_BackoffStated ==
    /\ \A i \in 1..Len(fc_sleeps) :
          /\ Pow2(i - 1) * Second <= fc_sleeps[i]
          /\ fc_sleeps[i] < (Pow2(i - 1) + 1) * Second
    /\ \A i \in 1..(Len(fc_sleeps) - 1) : fc_sleeps[i] < fc_sleeps[i + 1]
    /\ NoSleepAtExit

\* C32 amended: the delay slept after failed attempt i (counted from 0) is
\* at least 2^i s and at most 2^i + 1 s, the upper end being reached when
\* the floating-point sum rounds up; the delays never decrease; no sleep
\* follows the last failed attempt or a schema failure.
C32_Backoff ==
    /\ \A i \in 1..Len(fc_sleeps) :
          /\ Pow2(i - 1) * Second <= fc_sleeps[i]
          /\ fc_sleeps[i] <= (Pow2(i - 1) + 1) * Second
    /\ \A i \in 1..(Len(fc_sleeps) - 1) : fc_sleeps[i] <= fc_sleeps[i + 1]
    /\ NoSleepAtExit

\* C32 witness: four transport errors with the default of 3 retries; the
\* first delay rounded up to 2 s, the second is 2 s, no fourth sleep
C32_Witness ==
    /\ fc_max_retries = DefaultMaxRetries
    /\ fc_pc = "done"
    /\ Len(fc_log) = 4
    /\ \A i \in 1..4 : IsTransportError(fc_log[i])
    /\ Len(fc_sleeps) = 3
    /\ fc_sleeps[1] = 2 * Second
    /\ fc_sleeps[2] = 2 * Second

\* ------------------------------------------------------------------------
\* Claims about what process_symbol persists
\* ------------------------------------------------------------------------
IsWrite(e) == e.ev \in {"s3 write", "local write"}

\* entry n of jb_log is the fetch (the validation) of position pos with
\* this result
IsStep(n, pos, ev, detail) ==
    /\ jb_log[n].pos = pos
    /\ jb_log[n].ev = ev
    /\ jb_log[n].detail = detail

\* the positions whose fetch returned no data or whose series was rejected
FailedBeforeSave ==
    {jb_log[n].pos : n \in {m \in 1..Len(jb_log) :
        \/ IsStep(m, jb_log[m].pos, "fetch", "no data")
        \/ IsStep(m, jb_log[m].pos, "validate", "rejected")}}

\* C33: no store write (atomic_json_update with its put, copy and delete,
\* or put_object of local storage) is made for a symbol whose fetch
\* returned no data or whose series was rejected; every store write for a
\* symbol follows the successful fetch and the successful validation of
\* the same call of process_symbol.
C33_NothingPersistedOnFailure ==
    \A n \in 1..Len(jb_log) :
        IsWrite(jb_log[n]) =>
            /\ jb_log[n].pos \notin FailedBeforeSave
            /\ \E a \in 1..(n - 1) : \E b \in (a + 1)..(n - 1) :
                  /\ IsStep(a, jb_log[n].pos, "fetch", "data")
                  /\ IsStep(b, jb_log[n].pos, "validate", "accepted")

\* C33 witness: the first symbol was rejected by the validation and has no
\* write, the second one was fetched, accepted and written to S3
C33_Witness ==
    /\ 1 \in FailedBeforeSave
    /\ \E n \in 1..Len(jb_log) : IsStep(n, 1, "validate", "rejected")
    /\ \E n \in 1..Len(jb_log) : jb_log[n].pos = 2 /\ jb_log[n].ev = "s3 write"

\* ------------------------------------------------------------------------
\* Claims about the targets and the statistics of a migration run
\* ------------------------------------------------------------------------
\* the copies the store carried out
CopiesDone ==
    {n \in 1..Len(mg_calls) : mg_calls[n].op = "copy" /\ mg_calls[n].outcome = "ok"}

\* C34: in one run of migrate_objects no two distinct source keys are
\* copied to the same target key, so that no copy of the run overwrites an
\* object an earlier copy of the run wrote.
C34_NoDestinationCollision ==
    \A n \in CopiesDone : \A m \in CopiesDone :
        mg_calls[n].source_key # mg_calls[m].source_key =>
            mg_calls[n].target_key # mg_calls[m].target_key

\* the objects of mg_processed counted as success
Successes == {mg_processed[j][1] : j \in Counted("success")}

\* C35: the statistics migrate_objects returns have total = success +
\* failed + skipped and total = the number of listed keys; every pair of
\* migrated_keys is of an object counted as success, has a target other
\* than its source, and has a source that decodes as a known version other
\* than the target version.
C35_StatsConsistent ==
    (mg_pc = "returned" /\ mg_result.error = "none") =>
        /\ mg_result.total = Len(mg_objects)
        /\ mg_result.total = mg_result.success + mg_result.failed + mg_result.skipped
        /\ mg_result.success = Cardinality(Counted("success"))
        /\ mg_result.failed = Cardinality(Counted("failed"))
        /\ mg_result.skipped = Cardinality(Counted("skipped"))
        /\ \A n \in 1..Len(mg_result.migrated_keys) :
              LET pair == mg_result.migrated_keys[n]
              IN /\ pair[1] \in Successes
                 /\ pair[2] # pair[1]
                 /\ ParseS3Key(pair[1]).version \notin {"unknown", mg_args.target_version}

\* C35 witness: a run over two keys returned one skipped key and one
\* failed copy, and no pair
C35_Witness ==
    /\ mg_pc = "returned"
    /\ mg_result.total = 2
    /\ mg_result.skipped = 1
    /\ mg_result.failed = 1
    /\ mg_result.migrated_keys = <<>>
    /\ \E n \in 1..Len(mg_calls) : mg_calls[n].outcome = "ClientError"

\* ------------------------------------------------------------------------
\* Claims about the encoders of Config
\* ------------------------------------------------------------------------
\* what s3_paths returns for the arguments a key of Config was built from
SamePathsKey ==
    IF ks_origin.func = "get_metadata_key_v2"
    THEN GetMetadataKey(ks_origin.symbol, ks_origin.data_type, ks_origin.is_mock,
                        ks_mock_env)
    ELSE GetS3Key(ks_origin.symbol, ks_origin.data_type, ks_origin.date,
                  ks_origin.is_latest, ks_origin.is_mock, ks_mock_env)

BuiltByConfig == ks_origin.func \in {"get_s3_key_v2", "get_metadata_key_v2"}

SeriesDays == {ReceivedDays[i].date.day : i \in 1..Len(ReceivedDays)}

\* C37: the metadata of an accepted series has latest_date equal to
\* date_range.end and to the greatest date of the series, date_range.start
\* equal to the smallest date, start not after end, data_points equal to
\* the number of bars received, and the daily key is the key of
\* latest_date.
C37_MetadataConsistent ==
    qg_pc = "built" =>
        LET metadata == qg_documents.metadata
        IN /\ metadata.latest_date = metadata.date_range.end
           /\ \E first \in SeriesDays, last \in SeriesDays :
                 /\ \A d \in SeriesDays : first <= d /\ d <= last
                 /\ first <= last
                 /\ metadata.date_range.start = Strftime(first)
                 /\ metadata.latest_date = Strftime(last)
           /\ metadata.data_points = Len(ReceivedDays)
           /\ qg_documents.raw_daily_key.error = "none"
           /\ ParseS3Key(qg_documents.raw_daily_key.key).key_type = "daily"
           /\ ParseS3Key(qg_documents.raw_daily_key.key).date = metadata.latest_date

\* C37 witness: the metadata of the five days received in ascending order
C37_Witness ==
    /\ qg_pc = "built"
    /\ ReceivedDays = FiveDaysAscending
    /\ qg_documents.metadata.data_points = 5
    /\ qg_documents.metadata.latest_date = <<"2024", "-", "01", "-", "05">>
    /\ qg_documents.metadata.date_range.start = <<"2024", "-", "01", "-", "01">>

\* ------------------------------------------------------------------------
\* Claims about the response of the standalone lambda_handler
\* ------------------------------------------------------------------------
\* the loop has made one iteration per listed symbol, whatever the earlier
\* ones recorded, and every listed symbol has an entry in results
LoopCompleted ==
    /\ Len(lh_ends) = Len(lh_symbols)
    /\ \A i \in 1..Len(lh_symbols) : lh_response.results[lh_symbols[i]] # "none"

\* C38: when the handler has gone through its loop, its response reports
\* a failure (a status other than 200 or success false) if any symbol was
\* recorded as 'error'; the loop has visited every symbol and results has
\* an entry for each
C38_LambdaReportsFailure ==
    (lh_pc = "responded" /\ lh_response.has_results) =>
        /\ LoopCompleted
        /\ (\E s \in JobSymbols : lh_response.results[s] = "error")
               => (lh_response.statusCode # 200 \/ ~lh_response.success)

====
